---- MODULE Spec2Model ----
(***************************************************************************)
(* Model of the resilient database access layer: ConnectionPool,           *)
(* TransactionManager, MigrationRunner, ErrorRecoveryManager,              *)
(* DatabaseHealthMonitor and DatabaseManager.                              *)
(* Each component has its own specification (SpecPool, SpecPoolLife,       *)
(* SpecTx, SpecTxRetry, SpecTxCalls, SpecTxAttempt, SpecMig, SpecMigRb,    *)
(* SpecVal, SpecRec, SpecOutcome, SpecCons, SpecComp, SpecMon,             *)
(* SpecMonLife, SpecMonRate, SpecMonHistory, SpecMonCheck, SpecDm,         *)
(* SpecMgr); the variables of the other components stay parked.            *)
(***************************************************************************)
EXTENDS Integers, Sequences, FiniteSets, TLC

VARIABLES
    \* ---- ConnectionPool (connection-pool.ts) ----
    config,         \* PoolConfig {min, max, timeout}; timeout in poll intervals
    connections,    \* Map id -> ConnectionInfo.inUse
    available,      \* string[] of connection ids
    isInitialized,
    calls,          \* the getConnection / executeWithAnalysis calls and where each stands
    released,       \* TRUE once some releaseConnection call has returned a handle
    \* ---- TransactionManager (transaction-manager.ts) ----
    db,             \* the better-sqlite3 connection: data, open transaction, savepoints
    opts,           \* TransactionOptions of the call
    txKind,         \* "tx" executeTransaction, "batch" executeBatch, "nested" executeNestedTransaction
    txOps,          \* the work: its operations / steps
    txPc,           \* where executeTransaction stands: idle, attempt, delay, done
    attempt,        \* the attempt counter of executeTransaction
    runs,           \* per attempt, where the invocation of the work stands
    txResult,       \* the TransactionResult returned
    timedOut,       \* the attempts whose timeout fired
    txWait,         \* the delays executeTransaction has waited between attempts, in ms
    recoveryManager, \* whether the manager was constructed with a recovery manager
    recoveryCalls,  \* the attempts after which handleTransactionFailure was invoked
    \* ---- MigrationRunner (migration-runner.ts) ----
    migrations,     \* the declared migrations: their versions, in declaration order
    mdb,            \* the connection the runner works on ("rec" marks: schema_migrations rows)
    migResult,      \* the MigrationResult of the last runPendingMigrations
    upRuns,         \* the versions whose up() that call invoked, in order
    migLast,        \* that call's input: connection before it, versions whose up() threw
    migPrev,        \* the call before it: its result and the version it failed at (0: none)
    migCalls,       \* number of runPendingMigrations calls so far
    \* ---- ErrorRecoveryManager.attemptReconnection (error-recovery-manager.ts) ----
    options,        \* RecoveryOptions: maxRetries, retryDelay, backoffMultiplier
    failFirst,      \* the connect function fails on its first failFirst calls
    retryCount,
    connectCalls,   \* number of times the connect function was called
    recPc,          \* idle, delay, done
    recResult,      \* the RecoveryResult returned
    recDelay,       \* the backoff delay last computed
    \* ---- ErrorRecoveryManager.verifyAndCorrectInconsistencies ----
    users,          \* the rows of the users table
    orphans,        \* the auth_sessions rows whose user is missing
    consResult,     \* what the last verifyAndCorrectInconsistencies returned
    consBefore,     \* the tables before that call
    consCalls,      \* number of verifyAndCorrectInconsistencies calls so far
    \* ---- ErrorRecoveryManager.performComprehensiveRecovery ----
    repairOptions,  \* RecoveryOptions: enableAutoRepair, enableCorruptionDetection
    env,            \* what recovery finds: state of the database file, backups, JSON snapshot
    compPc,         \* idle, reconnect, done
    tiers,          \* the tiers executed so far and whether each succeeded
    dbFile,         \* the database file: original, repaired, backup, deleted
    compResult,     \* the RecoveryResult returned
    \* ---- DatabaseHealthMonitor (database-health-monitor.ts) ----
    monOptions,     \* MonitorOptions: autoRecovery, enableContinuousMonitoring; hasRecoveryManager
    isMonitoring,
    timer,          \* TRUE while the setInterval timer exists
    lastCheck,      \* the last performHealthCheck: issues, recovery actions dispatched, events emitted
    overlapped,     \* TRUE once a recovery action was dispatched while another was in progress
    \* ---- DatabaseManager.initialize (database-manager.ts) ----
    dmPc,           \* idle, ensureDir, connecting, catch, recovering, resolved, rejected
    dmDb,           \* TRUE once this.db is set
    dmInitialized,  \* isInitialized
    dmMigFails,     \* TRUE: a declared migration's up() throws whenever it is run
    \* ---- MigrationRunner.validateMigrations ----
    valMigrations,  \* the Migration[] given to validateMigrations
    valResult,      \* what the last call returned
    \* ---- MigrationRunner.rollbackMigration ----
    rbLast,         \* the last rollbackMigration call: its number, argument and outcome
    \* ---- ConnectionPool.releaseConnection of an unknown handle, closeAll ----
    poolLast,       \* the last such call: its number, what it was, what it did
    \* ---- DatabaseHealthMonitor.startMonitoring / stopMonitoring ----
    monLife,        \* the calls so far: their number, the last one, live timers, events emitted
    \* ---- DatabaseHealthMonitor: metrics history and error rate ----
    monRate,        \* errorCount, the stored samples, the rate and issue of the last check
    \* ---- ErrorRecoveryManager: how a recovery call ends ----
    recInput,       \* the call: the function and what each operation inside it does
    recOutcome,     \* how it ended: thrown, or returned with success and action
    \* ---- TransactionManager: executeTransaction calls that overlap ----
    txCalls,        \* per call: where it stands and the TransactionResult it returned
    attemptInput,   \* options of one transaction attempt and the statements that throw in it
    attemptOutcome, \* what attemptTransaction executed and the error it rejected with
    history,        \* the monitor's stored samples (by timestamp) and its clock
    mgr,            \* the DatabaseManager: db, isInitialized, transactionManager, healthMonitor
    mgrConns,       \* the connections the manager has opened, and those it has closed
    mgrTrail,       \* the calls made on the manager and the checks its monitor ran, in order
    checkOutcome    \* what the last performHealthCheck returned and the events it emitted

poolVars == <<config, connections, available, isInitialized, calls, released>>

txVars == <<db, opts, txKind, txOps, txPc, attempt, runs, txResult, timedOut, txWait,
           recoveryManager, recoveryCalls>>

migVars == <<migrations, mdb, migResult, upRuns, migLast, migPrev, migCalls>>

recVars == <<options, failFirst, retryCount, connectCalls, recPc, recResult, recDelay>>

consVars == <<users, orphans, consResult, consBefore, consCalls>>

compVars == <<repairOptions, env, compPc, tiers, dbFile, compResult>>

monVars == <<monOptions, isMonitoring, timer, lastCheck, overlapped>>

dmVars == <<dmPc, dmDb, dmInitialized, dmMigFails>>

valVars == <<valMigrations, valResult>>

rbVars == <<rbLast>>

lifeVars == <<poolLast>>

monLifeVars == <<monLife>>

monRateVars == <<monRate>>

outcomeVars == <<recInput, recOutcome>>

txCallsVars == <<txCalls>>

attemptVars == <<attemptInput, attemptOutcome>>

historyVars == <<history>>

mgrVars == <<mgr, mgrConns, mgrTrail>>

checkVars == <<checkOutcome>>

vars == <<poolVars, txVars, migVars, recVars, consVars, compVars, monVars, dmVars, valVars,
          rbVars, lifeVars, monLifeVars, monRateVars, outcomeVars, txCallsVars, attemptVars, historyVars, mgrVars, checkVars>>

\* what the actions of one component leave alone
nonPoolVars == <<txVars, migVars, recVars, consVars, compVars, monVars, dmVars, valVars, rbVars, lifeVars, monLifeVars, monRateVars, outcomeVars, txCallsVars, attemptVars, historyVars, mgrVars, checkVars>>
nonTxVars == <<poolVars, migVars, recVars, consVars, compVars, monVars, dmVars, valVars, rbVars, lifeVars, monLifeVars, monRateVars, outcomeVars, txCallsVars, attemptVars, historyVars, mgrVars, checkVars>>
nonMigVars == <<poolVars, txVars, recVars, consVars, compVars, monVars, dmVars, valVars, rbVars, lifeVars, monLifeVars, monRateVars, outcomeVars, txCallsVars, attemptVars, historyVars, mgrVars, checkVars>>
nonRecVars == <<poolVars, txVars, migVars, consVars, compVars, monVars, dmVars, valVars, rbVars, lifeVars, monLifeVars, monRateVars, outcomeVars, txCallsVars, attemptVars, historyVars, mgrVars, checkVars>>
nonConsVars == <<poolVars, txVars, migVars, recVars, compVars, monVars, dmVars, valVars, rbVars, lifeVars, monLifeVars, monRateVars, outcomeVars, txCallsVars, attemptVars, historyVars, mgrVars, checkVars>>
nonCompVars == <<poolVars, txVars, migVars, consVars, monVars, dmVars, valVars, rbVars, lifeVars, monLifeVars, monRateVars, outcomeVars, txCallsVars, attemptVars, historyVars, mgrVars, checkVars>>
nonMonVars == <<poolVars, txVars, migVars, consVars, compVars, dmVars, valVars, rbVars, lifeVars, monLifeVars, monRateVars, outcomeVars, txCallsVars, attemptVars, historyVars, mgrVars, checkVars>>
nonDmVars == <<poolVars, txVars, migVars, consVars, monVars, valVars, rbVars, lifeVars, monLifeVars, monRateVars, outcomeVars, txCallsVars, attemptVars, historyVars, mgrVars, checkVars>>
nonValVars == <<poolVars, txVars, migVars, recVars, consVars, compVars, monVars, dmVars, rbVars, lifeVars, monLifeVars, monRateVars, outcomeVars, txCallsVars, attemptVars, historyVars, mgrVars, checkVars>>
nonRbVars == <<poolVars, txVars, recVars, consVars, compVars, monVars, dmVars, valVars, lifeVars, monLifeVars, monRateVars, outcomeVars, txCallsVars, attemptVars, historyVars, mgrVars, checkVars>>
nonLifeVars == <<txVars, migVars, recVars, consVars, compVars, monVars, dmVars, valVars, rbVars, monLifeVars, monRateVars, outcomeVars, txCallsVars, attemptVars, historyVars, mgrVars, checkVars>>
nonMonLifeVars == <<poolVars, txVars, migVars, recVars, consVars, compVars, dmVars, valVars, rbVars, lifeVars, monRateVars, outcomeVars, txCallsVars, attemptVars, historyVars, mgrVars, checkVars>>
nonMonRateVars == <<poolVars, txVars, migVars, recVars, consVars, compVars, monVars, dmVars, valVars, rbVars, lifeVars, monLifeVars, outcomeVars, txCallsVars, attemptVars, historyVars, mgrVars, checkVars>>
nonOutcomeVars == <<poolVars, txVars, migVars, recVars, consVars, monVars, dmVars, valVars, rbVars, lifeVars, monLifeVars, monRateVars, txCallsVars, attemptVars, historyVars, mgrVars, checkVars>>
nonTxCallsVars == <<poolVars, migVars, recVars, consVars, compVars, monVars, dmVars, valVars, rbVars, lifeVars, monLifeVars, monRateVars, outcomeVars, attemptVars, historyVars, mgrVars, checkVars>>
nonAttemptVars == <<poolVars, txVars, migVars, recVars, consVars, compVars, monVars, dmVars, valVars, rbVars, lifeVars, monLifeVars, monRateVars, outcomeVars, txCallsVars, historyVars, mgrVars, checkVars>>
nonHistoryVars == <<poolVars, txVars, migVars, recVars, consVars, compVars, monVars, dmVars, valVars, rbVars, lifeVars, monLifeVars, monRateVars, outcomeVars, txCallsVars, attemptVars, mgrVars, checkVars>>
nonMgrVars == <<poolVars, txVars, migVars, recVars, consVars, compVars, monVars, dmVars, valVars, rbVars, lifeVars, monLifeVars, monRateVars, outcomeVars, txCallsVars, attemptVars, historyVars, checkVars>>
nonCheckVars == <<poolVars, txVars, migVars, recVars, consVars, compVars, monVars, dmVars, valVars, rbVars, lifeVars, monLifeVars, monRateVars, outcomeVars, txCallsVars, attemptVars, historyVars, mgrVars>>

----------------------------------------------------------------------------
(* Bounds *)
NumCalls == 5       \* getConnection / executeWithAnalysis calls in one behaviour
MaxInFlight == 2    \* calls suspended at an await of getConnection at the same time
MaxEwa == 1         \* executeWithAnalysis calls among them
MaxPoolMax == 3     \* largest config.max
MaxTimeout == 1     \* largest config.timeout, in poll intervals
MaxRetry == 2       \* largest opts.retryAttempts
MaxSteps == 3       \* most steps of a nested transaction
MaxVersion == 3     \* largest migration version declared
MaxMigCalls == 3    \* runPendingMigrations calls in one behaviour
MaxMaxRetries == 4  \* largest options.maxRetries
MaxFailFirst == 5   \* most initial failures of the connect function
MaxUsers == 3       \* most rows of the users table
MaxTime == 2        \* latest created_at of a row
MaxOrphans == 1     \* most orphaned sessions
MaxConsCalls == 2   \* verifyAndCorrectInconsistencies calls in one behaviour
MaxDeclared == 3    \* migrations in a list given to validateMigrations
MaxRollbacks == 2   \* rollbackMigration calls in one behaviour
MaxLifeOps == 2     \* closeAll and unknown-handle releaseConnection calls in one behaviour
MaxMonCalls == 5    \* startMonitoring and stopMonitoring calls in one behaviour
MaxChecks == 12     \* performHealthCheck calls in one behaviour
NumTxCalls == 3     \* executeTransaction calls on one TransactionManager at the same time
MaxBackoffRetry == 3 \* largest opts.retryAttempts where the delays are followed
MaxSamples == 105   \* samples added to one monitor's history
MaxMgrCalls == 5    \* calls on one DatabaseManager, its monitor's checks included

Min2(a, b) == IF a < b THEN a ELSE b


----------------------------------------------------------------------------
(***************************************************************************)
(* The SQLite connection as better-sqlite3 presents it: one connection,    *)
(* at most one open transaction, a stack of savepoints.                    *)
(***************************************************************************)
InitialData == {<<0, 0, 0>>}

ClosedDb(data) == [data |-> data, inTx |-> FALSE, snap |-> {}, sp |-> << >>, bySp |-> FALSE]

\* what the database holds durably: the data outside the open transaction
Committed(d) == IF d.inTx THEN d.snap ELSE d.data

\* Every statement returns ok = FALSE where SQLite raises an error.
SqlBegin(d) ==
    IF d.inTx THEN [ok |-> FALSE, d |-> d]
    ELSE [ok |-> TRUE, d |-> [d EXCEPT !.inTx = TRUE, !.snap = d.data]]

SqlCommit(d) ==
    IF ~d.inTx THEN [ok |-> FALSE, d |-> d]
    ELSE [ok |-> TRUE, d |-> ClosedDb(d.data)]

SqlRollback(d) ==
    IF ~d.inTx THEN [ok |-> FALSE, d |-> d]
    ELSE [ok |-> TRUE, d |-> ClosedDb(d.snap)]

\* SAVEPOINT outside a transaction opens one (db.inTransaction becomes true).
SqlSavepoint(d, name) ==
    IF d.inTx
    THEN [ok |-> TRUE, d |-> [d EXCEPT !.sp = Append(@, [name |-> name, data |-> d.data])]]
    ELSE [ok |-> TRUE, d |-> [data |-> d.data, inTx |-> TRUE, snap |-> d.data,
                              sp |-> <<[name |-> name, data |-> d.data]>>, bySp |-> TRUE]]

\* index of the most recent savepoint of that name, 0 if there is none
LastSavepoint(d, name) ==
    LET S == {i \in 1..Len(d.sp) : d.sp[i].name = name}
    IN  IF S = {} THEN 0 ELSE CHOOSE i \in S : \A j \in S : j <= i

SqlRollbackTo(d, name) ==
    LET i == LastSavepoint(d, name)
    IN  IF i = 0 THEN [ok |-> FALSE, d |-> d]
        ELSE [ok |-> TRUE, d |-> [d EXCEPT !.data = d.sp[i].data, !.sp = SubSeq(@, 1, i)]]

\* RELEASE of the outermost savepoint of a transaction that a SAVEPOINT
\* opened commits it.
SqlRelease(d, name) ==
    LET i == LastSavepoint(d, name)
    IN  IF i = 0 THEN [ok |-> FALSE, d |-> d]
        ELSE IF i = 1 /\ d.bySp THEN [ok |-> TRUE, d |-> ClosedDb(d.data)]
        ELSE [ok |-> TRUE, d |-> [d EXCEPT !.sp = SubSeq(@, 1, i - 1)]]

----------------------------------------------------------------------------
(***************************************************************************)
(* TransactionManager                                                      *)
(***************************************************************************)
\* safeRollback (lines 283-303): ROLLBACK only if a transaction is open.
safeRollback(d) == IF d.inTx THEN SqlRollback(d).d ELSE d

\* (mutant) the 'continue' branch releases the savepoint without rolling
\* back to it first
StepCatchNoRollback(d, name, onError) ==
    LET rb == SqlRollbackTo(d, name)
    IN  IF ~rb.ok THEN [go |-> FALSE, d |-> d]
        ELSE IF onError = "rollback" THEN [go |-> FALSE, d |-> rb.d]
        ELSE LET rl == SqlRelease(d, name)
             IN  IF rl.ok THEN [go |-> TRUE, d |-> rl.d] ELSE [go |-> FALSE, d |-> rb.d]

\* The catch block of a step of executeNestedTransaction (lines 177-188):
\* roll back to the step's savepoint, then rethrow ('rollback') or release
\* the savepoint and go on ('continue'). go = TRUE: the loop goes on.
StepCatch(d, name, onError) ==
    LET rb == SqlRollbackTo(d, name)
    IN  IF ~rb.ok THEN [go |-> FALSE, d |-> d]
        ELSE IF onError = "rollback" THEN [go |-> FALSE, d |-> rb.d]
        ELSE LET rl == SqlRelease(rb.d, name)
             IN  IF rl.ok THEN [go |-> TRUE, d |-> rl.d] ELSE [go |-> FALSE, d |-> rb.d]

\* One invocation of the work (the function given to executeTransaction, the
\* loop of executeBatch lines 111-120, the loop of executeNestedTransaction
\* lines 167-192), run from instruction k of operation o until it awaits a
\* timer or I/O ("sleeping"), returns or throws. a is the attempt that
\* invoked it; a write leaves the mark <<a, o, k>> in the data.
RECURSIVE RunWork(_, _, _, _)
RunWork(a, d, o, k) ==
    IF o > Len(txOps) THEN [st |-> "returned", d |-> d, o |-> 0, k |-> 0]
    ELSE IF k = 0 THEN
        RunWork(a, IF txKind = "nested" THEN SqlSavepoint(d, o).d ELSE d, o, 1)
    ELSE IF k > Len(txOps[o].body) THEN
        IF txKind = "nested"
        THEN LET rl == SqlRelease(d, o)
             IN  IF rl.ok THEN RunWork(a, rl.d, o + 1, 0)
                 ELSE LET sc == StepCatch(d, o, txOps[o].onError)
                      IN  IF sc.go THEN RunWork(a, sc.d, o + 1, 0)
                          ELSE [st |-> "threw", d |-> sc.d, o |-> 0, k |-> 0]
        ELSE RunWork(a, d, o + 1, 0)
    ELSE IF txOps[o].body[k] = "write" THEN
        RunWork(a, [d EXCEPT !.data = @ \cup {<<a, o, k>>}], o, k + 1)
    ELSE IF txOps[o].body[k] = "sleep" THEN
        [st |-> "sleeping", d |-> d, o |-> o, k |-> k + 1]
    ELSE \* "throw"
        IF txKind = "nested"
        THEN LET sc == StepCatch(d, o, txOps[o].onError)
             IN  IF sc.go THEN RunWork(a, sc.d, o + 1, 0)
                 ELSE [st |-> "threw", d |-> sc.d, o |-> 0, k |-> 0]
        ELSE [st |-> "threw", d |-> d, o |-> 0, k |-> 0]

\* executeWithRollback after the work has run on (lines 270-280): COMMIT if
\* it returned, safeRollback if it threw or the COMMIT failed.
Settle(w) ==
    IF w.st = "sleeping" THEN w
    ELSE IF w.st = "returned" /\ SqlCommit(w.d).ok
         THEN [w EXCEPT !.st = "resolved", !.d = SqlCommit(w.d).d]
         ELSE [w EXCEPT !.st = "rejected", !.d = safeRollback(w.d)]

\* executeWithRollback (lines 261-281) for attempt a: BEGIN TRANSACTION
\* (outside the try block), then the work.
executeWithRollback(a, d) ==
    LET b == SqlBegin(d)
    IN  IF ~b.ok THEN [st |-> "rejected", d |-> d, o |-> 0, k |-> 0]
        ELSE Settle(RunWork(a, b.d, 1, 0))

\* handleTransactionFailure (error-recovery-manager.ts lines 129-183) with
\* the empty retry function executeTransaction passes. health: what the
\* health check and the corruption check find.
handleTransactionFailure(d, health) ==
    LET rb == SqlRollback(d)
    IN  IF ~rb.ok THEN [success |-> FALSE, d |-> d]
        ELSE IF health = "corrupted" THEN [success |-> FALSE, d |-> rb.d]
        ELSE [success |-> TRUE, d |-> SqlCommit(SqlBegin(rb.d).d).d]

HealthOutcomes == {"healthy", "repaired", "corrupted"}

BaseDelay == 1000

\* (mutant) the same delay after every attempt
FixedDelay(a) == BaseDelay

\* line 91: this.delay(1000 * attempt)
retryDelay(a) == BaseDelay * a

RunIdle == [st |-> "none", o |-> 0, k |-> 0]

\* The rest of executeTransaction once attempt a has failed with the
\* connection in state d (attemptTransaction lines 247-258, executeTransaction
\* lines 61-101).
\* (mutant) recovery is tried after every failed attempt
AnyAttempt(a) == TRUE

\* line 66: attempt === opts.retryAttempts
LastAttempt(a) == a = opts.retryAttempts

AttemptFailed(a, d, health) ==
    LET d1 == IF opts.enableAutoRollback THEN safeRollback(d) ELSE d
    IN  IF opts.enableRecovery /\ recoveryManager /\ LastAttempt(a)
        THEN LET rec == handleTransactionFailure(d1, health)
             IN  /\ db' = rec.d
                 /\ txPc' = "done"
                 /\ txResult' = [success |-> rec.success, recoveryAttempted |-> TRUE]
                 /\ recoveryCalls' = Append(recoveryCalls, a)
                 /\ UNCHANGED txWait
        ELSE IF a < opts.retryAttempts
        THEN /\ db' = d1
             /\ txPc' = "delay"
             /\ txWait' = Append(txWait, retryDelay(a))
             /\ UNCHANGED <<txResult, recoveryCalls>>
        ELSE /\ db' = d1
             /\ txPc' = "done"
             /\ txResult' = [success |-> FALSE, recoveryAttempted |-> FALSE]
             /\ UNCHANGED <<txWait, recoveryCalls>>

\* attemptTransaction for attempt a (lines 222-246): start the timer, start
\* executeWithRollback, race them.
AttemptTransaction(a, health) ==
    LET w == executeWithRollback(a, db)
    IN  /\ runs' = [runs EXCEPT ![a] =
                       IF w.st = "sleeping" THEN [st |-> "sleeping", o |-> w.o, k |-> w.k]
                       ELSE [st |-> "over", o |-> 0, k |-> 0]]
        /\ IF w.st = "sleeping"
           THEN /\ db' = w.d
                /\ txPc' = "attempt"
                /\ UNCHANGED <<txResult, txWait, recoveryCalls>>
           ELSE IF w.st = "resolved"
           THEN /\ db' = w.d
                /\ txPc' = "done"
                /\ txResult' = [success |-> TRUE, recoveryAttempted |-> FALSE]
                /\ UNCHANGED <<txWait, recoveryCalls>>
           ELSE AttemptFailed(a, w.d, health)

\* executeTransaction is called: first attempt. With retryAttempts = 0 the
\* loop body never runs.
ExecuteTransaction(health) ==
    /\ txPc = "idle"
    /\ IF opts.retryAttempts = 0
       THEN /\ txPc' = "done"
            /\ txResult' = [success |-> FALSE, recoveryAttempted |-> FALSE]
            /\ UNCHANGED <<db, attempt, runs, txWait, recoveryCalls>>
       ELSE /\ attempt' = 1
            /\ AttemptTransaction(1, health)
    /\ UNCHANGED <<opts, txKind, txOps, timedOut, recoveryManager>>
    /\ UNCHANGED nonTxVars

\* The delay before the next attempt (line 91) is over: next loop iteration.
DelayDone(health) ==
    /\ txPc = "delay"
    /\ attempt' = attempt + 1
    /\ AttemptTransaction(attempt + 1, health)
    /\ UNCHANGED <<opts, txKind, txOps, timedOut, recoveryManager>>
    /\ UNCHANGED nonTxVars

\* The timer of the current attempt fires while its work is suspended
\* (lines 231-235): the race rejects; the work itself is not stopped.
TransactionTimeout(health) ==
    /\ txPc = "attempt"
    /\ runs[attempt].st = "sleeping"
    /\ timedOut' = timedOut \cup {attempt}
    /\ AttemptFailed(attempt, db, health)
    /\ UNCHANGED <<opts, txKind, txOps, attempt, runs, recoveryManager>>
    /\ UNCHANGED nonTxVars

\* The invocation of the work made by attempt a resumes after its await. If
\* a is the attempt executeTransaction is waiting for, the outcome settles
\* the race; otherwise the attempt was given up and only the connection
\* sees what the work and executeWithRollback still do.
ResumeWork(a, health) ==
    /\ runs[a].st = "sleeping"
    /\ LET w == Settle(RunWork(a, db, runs[a].o, runs[a].k))
       IN  /\ runs' = [runs EXCEPT ![a] =
                          IF w.st = "sleeping" THEN [st |-> "sleeping", o |-> w.o, k |-> w.k]
                          ELSE [st |-> "over", o |-> 0, k |-> 0]]
           /\ IF txPc = "attempt" /\ a = attempt /\ w.st # "sleeping"
              THEN IF w.st = "resolved"
                   THEN /\ db' = w.d
                        /\ txPc' = "done"
                        /\ txResult' = [success |-> TRUE, recoveryAttempted |-> FALSE]
                        /\ UNCHANGED <<txWait, recoveryCalls>>
                   ELSE AttemptFailed(a, w.d, health)
              ELSE /\ db' = w.d
                   /\ UNCHANGED <<txPc, txResult, txWait, recoveryCalls>>
    /\ UNCHANGED <<opts, txKind, txOps, attempt, timedOut, recoveryManager>>
    /\ UNCHANGED nonTxVars

Bodies == {<<"write">>, <<"write", "throw">>, <<"write", "sleep", "write">>,
           <<"write", "sleep", "write", "throw">>}

\* onError is read only in the catch block of a step, so a step that does
\* not throw is listed once.
Steps == {s \in [body : Bodies, onError : {"rollback", "continue"}] :
             s.body[Len(s.body)] # "throw" => s.onError = "rollback"}

\* the works given to executeTransaction, executeBatch, executeNestedTransaction
WorksOf(kind) ==
    IF kind = "tx" THEN {<<[body |-> b, onError |-> "rollback"]>> : b \in Bodies}
    ELSE IF kind = "batch"
    THEN {<<[body |-> b1, onError |-> "rollback"], [body |-> b2, onError |-> "rollback"]>> :
              b1 \in Bodies, b2 \in Bodies}
    ELSE UNION {[1..n -> Steps] : n \in 2..MaxSteps}

NoResult == [success |-> FALSE, recoveryAttempted |-> FALSE]

InitTx ==
    /\ db = ClosedDb(InitialData)
    /\ opts \in [retryAttempts : 0..MaxRetry, enableAutoRollback : BOOLEAN,
                  enableRecovery : BOOLEAN]
    /\ txKind \in {"tx", "batch", "nested"}
    /\ txOps \in WorksOf(txKind)
    /\ txPc = "idle"
    /\ attempt = 0
    /\ runs = [a \in 1..MaxRetry |-> RunIdle]
    /\ txResult = NoResult
    /\ timedOut = {}
    /\ txWait = << >>
    /\ recoveryManager = TRUE
    /\ recoveryCalls = << >>

ParkedTx ==
    /\ db = ClosedDb(InitialData)
    /\ opts = [retryAttempts |-> 0, enableAutoRollback |-> TRUE, enableRecovery |-> TRUE]
    /\ txKind = "tx"
    /\ txOps = << >>
    /\ txPc = "idle"
    /\ attempt = 0
    /\ runs = << >>
    /\ txResult = NoResult
    /\ timedOut = {}
    /\ txWait = << >>
    /\ recoveryManager = TRUE
    /\ recoveryCalls = << >>

NextTx ==
    \/ \E h \in HealthOutcomes : ExecuteTransaction(h)
    \/ \E h \in HealthOutcomes : DelayDone(h)
    \/ \E h \in HealthOutcomes : TransactionTimeout(h)
    \/ \E a \in 1..MaxRetry, h \in HealthOutcomes : ResumeWork(a, h)

\* executeTransaction with up to MaxBackoffRetry attempts
InitTxRetry ==
    /\ db = ClosedDb(InitialData)
    /\ opts \in [retryAttempts : 1..MaxBackoffRetry, enableAutoRollback : BOOLEAN,
                  enableRecovery : BOOLEAN]
    /\ txKind = "tx"
    /\ txOps \in WorksOf("tx")
    /\ txPc = "idle"
    /\ attempt = 0
    /\ runs = [a \in 1..MaxBackoffRetry |-> RunIdle]
    /\ txResult = NoResult
    /\ timedOut = {}
    /\ txWait = << >>
    /\ recoveryManager \in BOOLEAN
    /\ recoveryCalls = << >>

NextTxRetry ==
    \/ \E h \in HealthOutcomes : ExecuteTransaction(h)
    \/ \E h \in HealthOutcomes : DelayDone(h)
    \/ \E h \in HealthOutcomes : TransactionTimeout(h)
    \/ \E a \in 1..MaxBackoffRetry, h \in HealthOutcomes : ResumeWork(a, h)

----------------------------------------------------------------------------
(***************************************************************************)
(* TransactionManager: one attempt whose statements may throw. The work is *)
(* synchronous and the timer does not fire; x says which statements throw. *)
(***************************************************************************)
NoAttempt == [ended |-> FALSE, error |-> "none", inTx |-> FALSE, steps |-> << >>]

\* (mutant) the error of ROLLBACK replaces the error being handled
RollbackErrorWins(error, rollbackThrew) == IF rollbackThrew THEN "rollback" ELSE error

\* safeRollback catches what ROLLBACK throws (lines 291-302): the caller goes
\* on to `throw error` with the error it caught
ErrorAfterRollback(error, rollbackThrew) == error

\* safeRollback (lines 283-303) on a connection whose transaction is open
\* or not; a ROLLBACK that throws leaves the transaction open
safeRollbackOutcome(inTx, throws, x) ==
    IF ~inTx THEN [inTx |-> FALSE, threw |-> FALSE, steps |-> << >>]
    ELSE IF ~throws THEN [inTx |-> FALSE, threw |-> FALSE, steps |-> <<"ROLLBACK">>]
    ELSE [inTx |-> TRUE, threw |-> TRUE,
          steps |-> <<"ROLLBACK">>
                        \o (IF x.recoveryManager THEN <<"detectAndRepairCorruption">>
                            ELSE << >>)]

\* the catch block of executeWithRollback (lines 276-280) for the error caught
RollbackAndThrow(error, steps, x) ==
    LET rb == safeRollbackOutcome(TRUE, x.rollbackThrows, x)
    IN  [ended |-> TRUE, error |-> ErrorAfterRollback(error, rb.threw), inTx |-> rb.inTx,
         steps |-> steps \o rb.steps]

\* executeWithRollback (lines 261-281): BEGIN TRANSACTION is outside the try
executeWithRollbackOutcome(x) ==
    IF x.beginThrows
    THEN [ended |-> TRUE, error |-> "begin", inTx |-> FALSE, steps |-> <<"BEGIN">>]
    ELSE IF x.workThrows THEN RollbackAndThrow("work", <<"BEGIN", "work">>, x)
    ELSE IF x.commitThrows THEN RollbackAndThrow("commit", <<"BEGIN", "work", "COMMIT">>, x)
    ELSE [ended |-> TRUE, error |-> "none", inTx |-> FALSE,
          steps |-> <<"BEGIN", "work", "COMMIT">>]

\* attemptTransaction (lines 222-259): its catch block rolls back once more
\* when enableAutoRollback is set
attemptTransactionOutcome(x) ==
    LET e == executeWithRollbackOutcome(x)
    IN  IF e.error = "none" \/ ~x.enableAutoRollback THEN e
        ELSE LET rb == safeRollbackOutcome(e.inTx, x.rollbackAgainThrows, x)
             IN  [ended |-> TRUE, error |-> ErrorAfterRollback(e.error, rb.threw),
                  inTx |-> rb.inTx, steps |-> e.steps \o rb.steps]

AttemptInputs ==
    [enableAutoRollback : BOOLEAN, recoveryManager : BOOLEAN, beginThrows : BOOLEAN,
     workThrows : BOOLEAN, commitThrows : BOOLEAN, rollbackThrows : BOOLEAN,
     rollbackAgainThrows : BOOLEAN]

\* attemptTransaction settles
AttemptTransactionEnds ==
    /\ ~attemptOutcome.ended
    /\ attemptOutcome' = attemptTransactionOutcome(attemptInput)
    /\ UNCHANGED attemptInput
    /\ UNCHANGED nonAttemptVars

InitAttempt ==
    /\ attemptInput \in AttemptInputs
    /\ attemptOutcome = NoAttempt

ParkedAttempt ==
    /\ attemptInput = [enableAutoRollback |-> TRUE, recoveryManager |-> TRUE,
                       beginThrows |-> FALSE, workThrows |-> FALSE, commitThrows |-> FALSE,
                       rollbackThrows |-> FALSE, rollbackAgainThrows |-> FALSE]
    /\ attemptOutcome = NoAttempt

NextAttempt ==
    \/ AttemptTransactionEnds

----------------------------------------------------------------------------
(***************************************************************************)
(* TransactionManager: executeTransaction calls whose works overlap. The   *)
(* calls share this.db; each makes one attempt (retryAttempts = 1) of the  *)
(* same work, and no timeout fires. Call c leaves the marks <<c, o, k>>.   *)
(***************************************************************************)
TxCallIds == 1..NumTxCalls

IdleTxCall == [pc |-> "idle", o |-> 0, k |-> 0, success |-> FALSE, recoveryAttempted |-> FALSE]

\* The rest of executeTransaction once its only attempt has failed with the
\* connection in state d (attemptTransaction lines 247-258, executeTransaction
\* lines 61-101)
FailureOutcome(d, health) ==
    LET d1 == IF opts.enableAutoRollback THEN safeRollback(d) ELSE d
    IN  IF opts.enableRecovery /\ recoveryManager
        THEN LET rec == handleTransactionFailure(d1, health)
             IN  [d |-> rec.d, success |-> rec.success, recoveryAttempted |-> TRUE]
        ELSE [d |-> d1, success |-> FALSE, recoveryAttempted |-> FALSE]

\* call c goes on with w, what executeWithRollback has done so far
TxCallGoesOn(c, w, health) ==
    /\ IF w.st = "sleeping"
       THEN /\ db' = w.d
            /\ txCalls' = [txCalls EXCEPT ![c] = [@ EXCEPT !.pc = "sleeping", !.o = w.o, !.k = w.k]]
       ELSE IF w.st = "resolved"
       THEN /\ db' = w.d
            /\ txCalls' = [txCalls EXCEPT ![c] = [IdleTxCall EXCEPT !.pc = "done", !.success = TRUE]]
       ELSE LET f == FailureOutcome(w.d, health)
            IN  /\ db' = f.d
                /\ txCalls' = [txCalls EXCEPT ![c] =
                                  [IdleTxCall EXCEPT !.pc = "done", !.success = f.success,
                                                     !.recoveryAttempted = f.recoveryAttempted]]
    /\ UNCHANGED <<opts, txKind, txOps, txPc, attempt, runs, txResult, timedOut, txWait,
                   recoveryManager, recoveryCalls>>
    /\ UNCHANGED nonTxCallsVars

\* executeTransaction is called (lines 29-102)
ExecuteTransactionCall(c, health) ==
    /\ txCalls[c].pc = "idle"
    /\ \A c2 \in TxCallIds : c2 < c => txCalls[c2].pc # "idle"
    /\ TxCallGoesOn(c, executeWithRollback(c, db), health)

\* the work of call c resumes after its await
TxCallResumes(c, health) ==
    /\ txCalls[c].pc = "sleeping"
    /\ TxCallGoesOn(c, Settle(RunWork(c, db, txCalls[c].o, txCalls[c].k)), health)

InitTxCalls ==
    /\ txCalls = [c \in TxCallIds |-> IdleTxCall]
    /\ db = ClosedDb(InitialData)
    /\ opts \in [retryAttempts : {1}, enableAutoRollback : BOOLEAN, enableRecovery : BOOLEAN]
    /\ txKind = "tx"
    /\ txOps \in WorksOf("tx")
    /\ txPc = "idle"
    /\ attempt = 0
    /\ runs = << >>
    /\ txResult = NoResult
    /\ timedOut = {}
    /\ txWait = << >>
    /\ recoveryManager = TRUE
    /\ recoveryCalls = << >>

ParkedTxCalls == txCalls = << >>

NextTxCalls ==
    \/ \E c \in TxCallIds, h \in HealthOutcomes : ExecuteTransactionCall(c, h)
    \/ \E c \in TxCallIds, h \in HealthOutcomes : TxCallResumes(c, h)

----------------------------------------------------------------------------
(***************************************************************************)
(* MigrationRunner                                                         *)
(***************************************************************************)
Versions == 1..MaxVersion

RecordsOf(d) == {t[2] : t \in {u \in d.data : u[1] = "rec"}}

MaxOf(S) == CHOOSE x \in S : \A y \in S : y <= x

\* (mutant) the current version is not read from the table
getCurrentVersionZero(d) == 0

\* getCurrentVersion (lines 426-436): MAX(version), 0 for an empty table
getCurrentVersion(d) == IF RecordsOf(d) = {} THEN 0 ELSE MaxOf(RecordsOf(d))

\* migrations.filter(version > currentVersion)
RECURSIVE FilterPending(_, _)
FilterPending(migs, cur) ==
    IF migs = << >> THEN << >>
    ELSE IF Head(migs) > cur THEN <<Head(migs)>> \o FilterPending(Tail(migs), cur)
    ELSE FilterPending(Tail(migs), cur)

\* .sort((a, b) => a.version - b.version)
RECURSIVE InsertSorted(_, _)
InsertSorted(v, sq) ==
    IF sq = << >> THEN <<v>>
    ELSE IF v < Head(sq) THEN <<v>> \o sq
    ELSE <<Head(sq)>> \o InsertSorted(v, Tail(sq))

RECURSIVE SortAscending(_)
SortAscending(sq) ==
    IF sq = << >> THEN << >> ELSE InsertSorted(Head(sq), SortAscending(Tail(sq)))

\* lines 385-388
PendingMigrations(migs, d) == SortAscending(FilterPending(migs, getCurrentVersion(d)))

\* applyMigration (lines 438-458): BEGIN, up(), recordMigration, COMMIT;
\* ROLLBACK and rethrow on any error. An up() that throws has already made
\* part of its changes. ok = FALSE: applyMigration threw.
applyMigration(d, v, upThrows) ==
    LET b == SqlBegin(d).d
        part == [b EXCEPT !.data = @ \cup {<<"up", v, 1>>}]
        full == [part EXCEPT !.data = @ \cup {<<"up", v, 2>>}]
    IN  IF upThrows THEN [ok |-> FALSE, d |-> SqlRollback(part).d]
        ELSE IF v \in RecordsOf(full)     \* INSERT violates the primary key
        THEN [ok |-> FALSE, d |-> SqlRollback(full).d]
        ELSE [ok |-> TRUE,
              d |-> SqlCommit([full EXCEPT !.data = @ \cup {<<"rec", v, 0>>}]).d]

\* (mutant) the loop goes on after a failed migration
NeverStop(ok) == FALSE

\* line 404: break on the first error
StopOnError(ok) == ~ok

\* the loop of runPendingMigrations (lines 393-406) from position i of the
\* pending list; st carries the connection, the result and the up() calls.
RECURSIVE ApplyLoop(_, _, _, _)
ApplyLoop(pending, i, F, st) ==
    IF i > Len(pending) THEN st
    ELSE LET v == pending[i]
             am == applyMigration(st.d, v, v \in F)
             st2 == IF am.ok
                    THEN [d |-> am.d, ups |-> Append(st.ups, v),
                          res |-> [st.res EXCEPT !.appliedMigrations = @ + 1,
                                                  !.currentVersion = v]]
                    ELSE [d |-> am.d, ups |-> Append(st.ups, v),
                          res |-> [st.res EXCEPT !.errors = @ + 1, !.success = FALSE]]
         IN  IF StopOnError(am.ok) THEN st2 ELSE ApplyLoop(pending, i + 1, F, st2)

\* runPendingMigrations (lines 369-424); F: the versions whose up() throws
\* during this call.
runPendingMigrations(migs, d, F) ==
    ApplyLoop(PendingMigrations(migs, d), 1, F,
              [d |-> d, ups |-> << >>,
               res |-> [success |-> TRUE, appliedMigrations |-> 0, errors |-> 0,
                        currentVersion |-> getCurrentVersion(d)]])

NoMigResult == [success |-> TRUE, appliedMigrations |-> 0, errors |-> 0, currentVersion |-> 0]

RunPendingMigrations(F) ==
    /\ migCalls < MaxMigCalls
    /\ LET out == runPendingMigrations(migrations, mdb, F)
       IN  /\ mdb' = out.d
           /\ migResult' = out.res
           /\ upRuns' = out.ups
    /\ migLast' = [d |-> mdb, F |-> F]
    /\ migPrev' = [called |-> migCalls > 0, res |-> migResult,
                   failedAt |-> IF migCalls > 0 /\ ~migResult.success
                                THEN upRuns[Len(upRuns)] ELSE 0]
    /\ migCalls' = migCalls + 1
    /\ UNCHANGED migrations
    /\ UNCHANGED nonMigVars

\* the lists of distinct versions
DeclaredLists ==
    {sq \in UNION {[1..n -> Versions] : n \in 0..MaxVersion} :
        \A i, j \in 1..Len(sq) : i # j => sq[i] # sq[j]}

InitMig ==
    /\ migrations \in DeclaredLists
    /\ mdb = ClosedDb({})
    /\ migResult = NoMigResult
    /\ upRuns = << >>
    /\ migLast = [d |-> ClosedDb({}), F |-> {}]
    /\ migPrev = [called |-> FALSE, res |-> NoMigResult, failedAt |-> 0]
    /\ migCalls = 0

ParkedMig ==
    /\ migrations = << >>
    /\ mdb = ClosedDb({})
    /\ migResult = NoMigResult
    /\ upRuns = << >>
    /\ migLast = [d |-> ClosedDb({}), F |-> {}]
    /\ migPrev = [called |-> FALSE, res |-> NoMigResult, failedAt |-> 0]
    /\ migCalls = 0

NextMig ==
    \/ \E F \in SUBSET Versions : RunPendingMigrations(F)

----------------------------------------------------------------------------
(***************************************************************************)
(* MigrationRunner.validateMigrations (lines 498-538)                      *)
(* A migration is [version, name, up, down]: name is undefined or a string *)
(* over a blank and a letter; up and down tell whether the property is a   *)
(* function.                                                               *)
(***************************************************************************)
ValVersions == (0 - 1)..MaxVersion

NoName == [defined |-> FALSE, chars |-> << >>]

NameOf(chars) == [defined |-> TRUE, chars |-> chars]

GoodName == NameOf(<<"a">>)

OtherNames ==
    {NoName} \cup {NameOf(c) : c \in {<< >>, <<" ">>, <<" ", " ">>, <<" ", "a">>, <<"a", " ">>}}

WellFormed(v) == [version |-> v, name |-> GoodName, up |-> TRUE, down |-> TRUE]

\* the migrations of version v: the well-formed one and those that differ
\* from it in the name or in up and down
Variants(v) ==
    {WellFormed(v)}
        \cup {[WellFormed(v) EXCEPT !.name = n] : n \in OtherNames}
        \cup {[WellFormed(v) EXCEPT !.up = FALSE], [WellFormed(v) EXCEPT !.down = FALSE],
              [WellFormed(v) EXCEPT !.up = FALSE, !.down = FALSE]}

VersionLists(n) == UNION {[1..k -> ValVersions] : k \in 0..n}

\* the list of well-formed migrations of these versions, with w at place i
MigrationList(vl, i, w) ==
    [k \in 1..Len(vl) |-> IF k = i THEN [w EXCEPT !.version = vl[k]] ELSE WellFormed(vl[k])]

\* the lists of at most n migrations of any versions, at most one of them
\* with another name or without up or down
MigrationLists(n) ==
    {MigrationList(vl, i, w) : vl \in VersionLists(n), i \in 1..n, w \in Variants(0)}

\* String.prototype.trim
RECURSIVE TrimStart(_)
TrimStart(c) == IF c # << >> /\ Head(c) = " " THEN TrimStart(Tail(c)) ELSE c

RECURSIVE TrimEnd(_)
TrimEnd(c) ==
    IF c # << >> /\ c[Len(c)] = " " THEN TrimEnd(SubSeq(c, 1, Len(c) - 1)) ELSE c

trim(c) == TrimEnd(TrimStart(c))

\* versions.indexOf(v), for a v that occurs
indexOf(versions, v) ==
    CHOOSE i \in 1..Len(versions) :
        versions[i] = v /\ \A j \in 1..(i - 1) : versions[j] # v

\* versions.filter((v, i) => versions.indexOf(v) !== i) (line 503)
duplicates(versions) == {i \in 1..Len(versions) : indexOf(versions, versions[i]) # i}

\* [...new Set(versions)]: the first occurrences in order
RECURSIVE Distinct(_, _)
Distinct(versions, i) ==
    IF i > Len(versions) THEN << >>
    ELSE IF indexOf(versions, versions[i]) = i
    THEN <<versions[i]>> \o Distinct(versions, i + 1)
    ELSE Distinct(versions, i + 1)

\* (mutant) no gap is looked for
NoGapCheck(sorted, i) == FALSE

\* line 511
IsGap(sorted, i) == sorted[i] # sorted[i - 1] + 1

\* lines 509-516
RECURSIVE GapErrors(_, _)
GapErrors(sorted, i) ==
    IF i > Len(sorted) THEN << >>
    ELSE (IF IsGap(sorted, i) THEN <<"gap">> ELSE << >>) \o GapErrors(sorted, i + 1)

\* lines 520-531: !x is true of undefined, of 0 and of the empty string
PropertyErrors(mig) ==
    (IF mig.version = 0 \/ mig.version <= 0 THEN <<"version">> ELSE << >>)
        \o (IF ~mig.name.defined \/ mig.name.chars = << >> \/ trim(mig.name.chars) = << >>
            THEN <<"name">> ELSE << >>)
        \o (IF ~mig.up THEN <<"up">> ELSE << >>)
        \o (IF ~mig.down THEN <<"down">> ELSE << >>)

RECURSIVE AllPropertyErrors(_, _)
AllPropertyErrors(migs, i) ==
    IF i > Len(migs) THEN << >>
    ELSE PropertyErrors(migs[i]) \o AllPropertyErrors(migs, i + 1)

validateMigrations(migs) ==
    LET versions == [i \in 1..Len(migs) |-> migs[i].version]
        sortedVersions == SortAscending(Distinct(versions, 1))
        errors == (IF duplicates(versions) # {} THEN <<"duplicate">> ELSE << >>)
                      \o GapErrors(sortedVersions, 2)
                      \o AllPropertyErrors(migs, 1)
    IN  [valid |-> errors = << >>, errors |-> errors]

NoValResult == [called |-> FALSE, valid |-> FALSE, errors |-> << >>]

ValidateMigrations ==
    /\ ~valResult.called
    /\ LET r == validateMigrations(valMigrations)
       IN  valResult' = [called |-> TRUE, valid |-> r.valid, errors |-> r.errors]
    /\ UNCHANGED valMigrations
    /\ UNCHANGED nonValVars

InitVal ==
    /\ valMigrations \in MigrationLists(MaxDeclared)
    /\ valResult = NoValResult

ParkedVal ==
    /\ valMigrations = << >>
    /\ valResult = NoValResult

NextVal ==
    \/ ValidateMigrations

----------------------------------------------------------------------------
(***************************************************************************)
(* MigrationRunner.rollbackMigration (lines 460-482)                       *)
(***************************************************************************)
\* what down() of version v changes when it runs to its end
DownChanges(v) == {<<"down", v, 1>>, <<"down", v, 2>>}

\* (mutant) the catch block commits
CommitOnError(d) == SqlCommit(d).d

\* lines 477-481: ROLLBACK, then the error is thrown again
RollbackOnError(d) == SqlRollback(d).d

\* BEGIN, down(), removeMigrationRecord, COMMIT. A down() that throws has
\* already made part of its changes. threw = TRUE: the call rejects.
rollbackMigration(d, v, downThrows, deleteThrows) ==
    LET b == SqlBegin(d)
        part == [b.d EXCEPT !.data = @ \cup {<<"down", v, 1>>}]
        full == [part EXCEPT !.data = @ \cup DownChanges(v)]
        removed == [full EXCEPT !.data = @ \ {<<"rec", v, 0>>}]
    IN  IF ~b.ok THEN [threw |-> TRUE, d |-> d]
        ELSE IF downThrows THEN [threw |-> TRUE, d |-> RollbackOnError(part)]
        ELSE IF deleteThrows THEN [threw |-> TRUE, d |-> RollbackOnError(full)]
        ELSE [threw |-> FALSE, d |-> SqlCommit(removed).d]

NoRollback ==
    [n |-> 0, version |-> 0, downThrows |-> FALSE, deleteThrows |-> FALSE, threw |-> FALSE]

\* rollbackMigration of a declared migration
RollbackMigration(i, downThrows, deleteThrows) ==
    /\ rbLast.n < MaxRollbacks
    /\ i \in 1..Len(migrations)
    /\ LET out == rollbackMigration(mdb, migrations[i], downThrows, deleteThrows)
       IN  /\ mdb' = out.d
           /\ rbLast' = [n |-> rbLast.n + 1, version |-> migrations[i],
                         downThrows |-> downThrows, deleteThrows |-> deleteThrows,
                         threw |-> out.threw]
    /\ UNCHANGED <<migrations, migResult, upRuns, migLast, migPrev, migCalls>>
    /\ UNCHANGED nonRbVars

\* the declared lists that pass validateMigrations, in ascending order
\* (runPendingMigrations sorts, rollbackMigration takes one migration)
ValidatedLists ==
    {sq \in DeclaredLists :
        /\ \A i \in 1..(Len(sq) - 1) : sq[i] < sq[i + 1]
        /\ validateMigrations([i \in 1..Len(sq) |-> WellFormed(sq[i])]).valid}

InitRb == rbLast = NoRollback

ParkedRb == rbLast = NoRollback

\* a call in which no up() throws, or the up() of one version
OneFailure == {{}} \cup {{v} : v \in Versions}

\* down() throws, or the deletion throws, or neither
RollbackFailures == {<<FALSE, FALSE>>, <<TRUE, FALSE>>, <<FALSE, TRUE>>}

NextMigRb ==
    \/ \E F \in OneFailure : RunPendingMigrations(F)
    \/ \E i \in 1..MaxVersion, t \in RollbackFailures : RollbackMigration(i, t[1], t[2])

----------------------------------------------------------------------------
(***************************************************************************)
(* ErrorRecoveryManager.attemptReconnection                                *)
(***************************************************************************)
RECURSIVE Pow(_, _)
Pow(b, e) == IF e = 0 THEN 1 ELSE b * Pow(b, e - 1)

\* calculateBackoffDelay (lines 652-654)
calculateBackoffDelay(rc) == options.retryDelay * Pow(options.backoffMultiplier, rc - 1)

\* (mutant) gives up one failure early
RetriesExhaustedEarly(rc) == rc >= options.maxRetries - 1

\* line 70: give up once retryCount has reached maxRetries
RetriesExhausted(rc) == rc >= options.maxRetries

\* One iteration of the loop of attemptReconnection (lines 51-81) entered
\* with retry counter rc: call the connect function; on success reset the
\* counter and return; on failure count it, compute the delay, and return the
\* failure or wait.
ReconnectIteration(rc) ==
    IF ~(rc < options.maxRetries)
    THEN /\ recPc' = "done"
         /\ recResult' = [success |-> FALSE, details |-> "Maximum retry attempts exceeded"]
         /\ retryCount' = rc
         /\ UNCHANGED <<connectCalls, recDelay>>
    ELSE /\ connectCalls' = connectCalls + 1
         /\ IF connectCalls + 1 > failFirst
            THEN /\ retryCount' = 0
                 /\ recPc' = "done"
                 /\ recResult' = [success |-> TRUE, details |-> "Successfully reconnected"]
                 /\ UNCHANGED recDelay
            ELSE /\ retryCount' = rc + 1
                 /\ recDelay' = calculateBackoffDelay(rc + 1)
                 /\ IF RetriesExhausted(rc + 1)
                    THEN /\ recPc' = "done"
                         /\ recResult' = [success |-> FALSE, details |-> "Failed to reconnect"]
                    ELSE /\ recPc' = "delay"
                         /\ UNCHANGED recResult

\* attemptReconnection is called (line 49: retryCount = 0) and runs up to its
\* first await of the delay, or returns.
AttemptReconnection ==
    /\ recPc = "idle"
    /\ ReconnectIteration(0)
    /\ UNCHANGED <<options, failFirst>>
    /\ UNCHANGED nonRecVars

\* the delay is over (line 79): next iteration
ReconnectRetry ==
    /\ recPc = "delay"
    /\ ReconnectIteration(retryCount)
    /\ UNCHANGED <<options, failFirst>>
    /\ UNCHANGED nonRecVars

NoRecResult == [success |-> FALSE, details |-> ""]

DefaultRetryDelay == 1000
ShortRetryDelay == 100
DefaultBackoffMultiplier == 2

InitRec ==
    /\ options \in [maxRetries : 0..MaxMaxRetries, retryDelay : {DefaultRetryDelay, ShortRetryDelay},
                    backoffMultiplier : {DefaultBackoffMultiplier}]
    /\ failFirst \in 0..MaxFailFirst
    /\ retryCount = 0
    /\ connectCalls = 0
    /\ recPc = "idle"
    /\ recResult = NoRecResult
    /\ recDelay = 0

ParkedRec ==
    /\ options = [maxRetries |-> 0, retryDelay |-> DefaultRetryDelay,
                  backoffMultiplier |-> DefaultBackoffMultiplier]
    /\ failFirst = 0
    /\ retryCount = 0
    /\ connectCalls = 0
    /\ recPc = "idle"
    /\ recResult = NoRecResult
    /\ recDelay = 0

NextRec ==
    \/ AttemptReconnection
    \/ ReconnectRetry

----------------------------------------------------------------------------
(***************************************************************************)
(* ErrorRecoveryManager.performComprehensiveRecovery                       *)
(***************************************************************************)
\* what new Database(dbPath) and the integrity check find
FileStates == {"unopenable", "healthy", "repairable", "unrepairable"}

\* the backup files: none, one that can be copied, one whose copy fails
BackupStates == {"none", "ok", "copyFails"}

\* detectAndRepairCorruption (lines 94-124) on a file in state f
detectAndRepairCorruption(f) ==
    IF ~repairOptions.enableCorruptionDetection
    THEN [isCorrupted |-> FALSE, repairAttempted |-> FALSE, repairSuccessful |-> FALSE]
    ELSE IF f = "healthy"
    THEN [isCorrupted |-> FALSE, repairAttempted |-> FALSE, repairSuccessful |-> FALSE]
    ELSE [isCorrupted |-> TRUE,
          repairAttempted |-> repairOptions.enableAutoRepair,
          repairSuccessful |-> repairOptions.enableAutoRepair /\ f = "repairable"]

\* step 2 (lines 254-268): the tier's outcome and the file afterwards
RepairTier(file) ==
    IF env.file = "unopenable" THEN [ok |-> FALSE, file |-> file]
    ELSE LET c == detectAndRepairCorruption(env.file)
         IN  [ok |-> c.isCorrupted /\ c.repairSuccessful,
              file |-> IF c.repairAttempted THEN "repaired" ELSE file]

\* attemptBackupRestore (lines 558-593)
attemptBackupRestore(file) ==
    IF env.backup = "ok" THEN [ok |-> TRUE, file |-> "backup"]
    ELSE [ok |-> FALSE, file |-> file]

\* attemptRecreateFromJson (lines 595-624): succeeds when users.json exists
attemptRecreateFromJson(file) == [ok |-> env.json, file |-> file]

\* createEmptyDatabase (lines 626-649): unlinks the file
createEmptyDatabase(file) == [ok |-> TRUE, file |-> "deleted"]

\* (mutant) a tier's success does not end the recovery
GoOnRegardless(ok) == FALSE

\* `if (result.success) return result` after each tier
ReturnsAt(ok) == ok

\* steps 2 to 5 of performComprehensiveRecovery (lines 253-283)
LaterTiers(log, file) ==
    LET t2 == RepairTier(file)
        l2 == Append(log, [tier |-> "repair", ok |-> t2.ok])
        t3 == attemptBackupRestore(t2.file)
        l3 == Append(l2, [tier |-> "restore", ok |-> t3.ok])
        t4 == attemptRecreateFromJson(t3.file)
        l4 == Append(l3, [tier |-> "recreate", ok |-> t4.ok])
        t5 == createEmptyDatabase(t4.file)
        l5 == Append(l4, [tier |-> "delete", ok |-> t5.ok])
    IN  IF ReturnsAt(t2.ok) THEN [log |-> l2, file |-> t2.file, success |-> TRUE, action |-> "repair"]
        ELSE IF ReturnsAt(t3.ok) THEN [log |-> l3, file |-> t3.file, success |-> TRUE, action |-> "restore"]
        ELSE IF ReturnsAt(t4.ok) THEN [log |-> l4, file |-> t4.file, success |-> TRUE, action |-> "recreate"]
        ELSE [log |-> l5, file |-> t5.file, success |-> t5.ok, action |-> "recreate"]

NoCompResult == [success |-> FALSE, action |-> "none"]

\* performComprehensiveRecovery is called: step 1 (line 248) starts
\* attemptReconnection, which runs up to its first delay or returns.
PerformComprehensiveRecovery ==
    /\ recPc = "idle"
    /\ compPc = "idle"
    /\ ReconnectIteration(0)
    /\ compPc' = "reconnect"
    /\ UNCHANGED <<options, failFirst>>
    /\ UNCHANGED <<repairOptions, env, tiers, dbFile, compResult>>
    /\ UNCHANGED nonCompVars

\* attemptReconnection has returned (lines 249-251): return its success, or
\* go through the later tiers.
AfterReconnection ==
    /\ compPc = "reconnect"
    /\ recPc = "done"
    /\ LET l1 == Append(tiers, [tier |-> "reconnect", ok |-> recResult.success])
           out == LaterTiers(l1, dbFile)
       IN  IF ReturnsAt(recResult.success)
           THEN /\ tiers' = l1
                /\ compResult' = [success |-> TRUE, action |-> "reconnect"]
                /\ UNCHANGED dbFile
           ELSE /\ tiers' = out.log
                /\ compResult' = [success |-> out.success, action |-> out.action]
                /\ dbFile' = out.file
    /\ compPc' = "done"
    /\ UNCHANGED <<repairOptions, env>>
    /\ UNCHANGED recVars
    /\ UNCHANGED nonCompVars

InitComp ==
    /\ repairOptions \in [enableAutoRepair : BOOLEAN, enableCorruptionDetection : BOOLEAN]
    /\ env \in [file : FileStates, backup : BackupStates, json : BOOLEAN]
    /\ compPc = "idle"
    /\ tiers = << >>
    /\ dbFile = "original"
    /\ compResult = NoCompResult

ParkedComp ==
    /\ repairOptions = [enableAutoRepair |-> TRUE, enableCorruptionDetection |-> TRUE]
    /\ env = [file |-> "healthy", backup |-> "none", json |-> FALSE]
    /\ compPc = "idle"
    /\ tiers = << >>
    /\ dbFile = "original"
    /\ compResult = NoCompResult

NextComp ==
    \/ PerformComprehensiveRecovery
    \/ ReconnectRetry
    \/ AfterReconnection

----------------------------------------------------------------------------
(***************************************************************************)
(* ErrorRecoveryManager: how attemptReconnection, handleTransactionFailure *)
(* and performComprehensiveRecovery end. A block ends by throwing or by    *)
(* returning a RecoveryResult.                                             *)
(***************************************************************************)
NoOutcome == [threw |-> FALSE, success |-> FALSE, action |-> "none", steps |-> << >>]

Thrown == [threw |-> TRUE, success |-> FALSE, action |-> "none"]

Returned(success, action) == [threw |-> FALSE, success |-> success, action |-> action]

\* (mutant) the catch block throws the error again
LetThrough(out, result) == out

\* try { out } catch { return result }
CatchAll(out, result) == IF out.threw THEN result ELSE out

\* attemptReconnection (lines 47-89): the connect function throws or rejects
\* on its first failFirst calls
RECURSIVE ReconnectLoopOutcome(_, _, _)
ReconnectLoopOutcome(count, maxRetries, fails) ==
    IF count >= maxRetries THEN Returned(FALSE, "reconnect")
    ELSE IF count >= fails THEN Returned(TRUE, "reconnect")
    ELSE IF count + 1 >= maxRetries THEN Returned(FALSE, "reconnect")
    ELSE ReconnectLoopOutcome(count + 1, maxRetries, fails)

attemptReconnectionOutcome(x) == ReconnectLoopOutcome(0, x.maxRetries, x.failFirst)

\* handleTransactionFailure, the retry (lines 155-174): BEGIN, the work,
\* COMMIT; the catch block runs ROLLBACK, which may throw as well
RetryBlock(x) ==
    IF x.beginThrows \/ x.workThrows \/ x.commitThrows
    THEN IF x.rollbackAgainThrows THEN Thrown ELSE Returned(FALSE, "repair")
    ELSE Returned(TRUE, "reconnect")

\* lines 135-174
RecoveryBlock(x) ==
    IF x.rollbackThrows THEN Thrown
    ELSE IF ~x.healthy /\ x.corruption = "unrepaired" THEN Returned(FALSE, "repair")
    ELSE RetryBlock(x)

\* handleTransactionFailure (lines 129-183)
handleTransactionFailureOutcome(x) == CatchAll(RecoveryBlock(x), Returned(FALSE, "repair"))

\* (mutant) the work is run a second time
RetryTwice(steps) == steps \o steps

\* lines 155-158: one BEGIN, one call of the work, one COMMIT
RetryOnce(steps) == steps

\* the statements the retry executes (lines 155-166), in order
RetrySteps(x) ==
    RetryOnce(<<"BEGIN">>
              \o (IF x.beginThrows THEN << >>
                  ELSE <<"work">> \o (IF x.workThrows THEN << >> ELSE <<"COMMIT">>)))
        \o (IF x.beginThrows \/ x.workThrows \/ x.commitThrows THEN <<"ROLLBACK">> ELSE << >>)

\* what handleTransactionFailure executes (lines 135-166), in order
RecoverySteps(x) ==
    <<"ROLLBACK">>
        \o (IF x.rollbackThrows THEN << >>
            ELSE <<"performHealthCheck">>
                     \o (IF ~x.healthy THEN <<"detectAndRepairCorruption">> ELSE << >>)
                     \o (IF ~x.healthy /\ x.corruption = "unrepaired" THEN << >>
                         ELSE RetrySteps(x)))

\* attemptBackupRestore (lines 558-593) with a readdir that may throw
BackupRestoreOutcome(x) ==
    CatchAll(IF x.readdirThrows THEN Thrown
             ELSE IF env.backup = "none" THEN Returned(FALSE, "restore")
             ELSE IF env.backup = "copyFails" THEN Thrown
             ELSE Returned(TRUE, "restore"),
             Returned(FALSE, "restore"))

\* attemptRecreateFromJson (lines 595-624)
RecreateFromJsonOutcome(x) ==
    CatchAll(Returned(env.json, "recreate"), Returned(FALSE, "recreate"))

\* createEmptyDatabase (lines 626-649): the error of unlink is swallowed
EmptyDatabaseOutcome(x) ==
    LET unlink == CatchAll(IF x.unlinkThrows THEN Thrown ELSE Returned(TRUE, "recreate"),
                           Returned(TRUE, "recreate"))
    IN  CatchAll(IF unlink.threw THEN Thrown ELSE Returned(TRUE, "recreate"),
                 Returned(FALSE, "recreate"))

\* step 2 of performComprehensiveRecovery (lines 253-268): new Database
\* throws on a file that cannot be opened; the catch block goes on
RepairOutcome(x) ==
    CatchAll(IF env.file = "unopenable" THEN Thrown
             ELSE LET c == detectAndRepairCorruption(env.file)
                  IN  Returned(c.isCorrupted /\ c.repairSuccessful, "repair"),
             Returned(FALSE, "repair"))

\* performComprehensiveRecovery (lines 243-284)
performComprehensiveRecoveryOutcome(x) ==
    LET r1 == attemptReconnectionOutcome(x)
        r2 == RepairOutcome(x)
        r3 == BackupRestoreOutcome(x)
        r4 == RecreateFromJsonOutcome(x)
    IN  IF r1.threw \/ r1.success THEN r1
        ELSE IF r2.success THEN r2
        ELSE IF r3.threw \/ r3.success THEN r3
        ELSE IF r4.threw \/ r4.success THEN r4
        ELSE EmptyDatabaseOutcome(x)

NoInput ==
    [fn |-> "none", maxRetries |-> 0, failFirst |-> 0, rollbackThrows |-> FALSE,
     healthy |-> TRUE, corruption |-> "none", beginThrows |-> FALSE, workThrows |-> FALSE,
     commitThrows |-> FALSE, rollbackAgainThrows |-> FALSE, readdirThrows |-> FALSE,
     unlinkThrows |-> FALSE]

ReconnectInputs ==
    {[NoInput EXCEPT !.fn = "attemptReconnection", !.maxRetries = mr, !.failFirst = ff] :
        mr \in 0..MaxMaxRetries, ff \in 0..MaxFailFirst}

TransactionFailureInputs ==
    {[NoInput EXCEPT !.fn = "handleTransactionFailure", !.rollbackThrows = b[1],
                     !.healthy = b[2], !.beginThrows = b[3], !.workThrows = b[4],
                     !.commitThrows = b[5], !.rollbackAgainThrows = b[6], !.corruption = c] :
        b \in [1..6 -> BOOLEAN], c \in {"none", "repaired", "unrepaired"}}

ComprehensiveInputs ==
    {[r EXCEPT !.fn = "performComprehensiveRecovery", !.readdirThrows = rd,
               !.unlinkThrows = ul] :
        r \in ReconnectInputs, rd \in BOOLEAN, ul \in BOOLEAN}

\* steps: the operations of a handleTransactionFailure call, in order
CallEnds(fn, out, steps) ==
    /\ recInput.fn = fn
    /\ recOutcome = NoOutcome
    /\ recOutcome' = [threw |-> out.threw, success |-> out.success, action |-> out.action,
                      steps |-> steps]
    /\ UNCHANGED recInput
    /\ UNCHANGED <<repairOptions, env, compPc, tiers, dbFile, compResult>>
    /\ UNCHANGED nonOutcomeVars

AttemptReconnectionEnds ==
    CallEnds("attemptReconnection", attemptReconnectionOutcome(recInput), << >>)

HandleTransactionFailureEnds ==
    CallEnds("handleTransactionFailure", handleTransactionFailureOutcome(recInput),
             RecoverySteps(recInput))

PerformComprehensiveRecoveryEnds ==
    CallEnds("performComprehensiveRecovery", performComprehensiveRecoveryOutcome(recInput), << >>)

InitOutcome ==
    /\ recInput \in ReconnectInputs \cup TransactionFailureInputs \cup ComprehensiveInputs
    /\ recOutcome = NoOutcome

ParkedOutcome ==
    /\ recInput = NoInput
    /\ recOutcome = NoOutcome

NextOutcome ==
    \/ AttemptReconnectionEnds
    \/ HandleTransactionFailureEnds
    \/ PerformComprehensiveRecoveryEnds

----------------------------------------------------------------------------
(***************************************************************************)
(* DatabaseHealthMonitor                                                   *)
(***************************************************************************)
HighInconsistencies == 10

\* What one health check finds: SELECT 1 works or not, the response time and
\* the error rate against their thresholds, the integrity of the file, the
\* number of inconsistencies. On a connection that fails every statement
\* throws: the integrity check reports errors that no repair removes, and the
\* consistency queries find nothing.
HealthInputs ==
    {h \in [connectivity : BOOLEAN,
            response : {"ok", "warning", "critical"},
            errorRate : {"ok", "warning", "critical"},
            file : {"healthy", "repairable", "unrepairable"},
            inconsistencies : {0, 1, HighInconsistencies + 1}] :
        ~h.connectivity => (h.file = "unrepairable" /\ h.inconsistencies = 0)}

Issue(sev, type) == [severity |-> sev, type |-> type]

\* the issues list built by performHealthCheck (lines 123-221), in order
IssuesFound(h) ==
    LET c == detectAndRepairCorruption(h.file)
    IN  (IF ~h.connectivity THEN <<Issue("critical", "connection")>> ELSE << >>)
        \o (IF h.response = "critical" THEN <<Issue("critical", "performance")>>
            ELSE IF h.response = "warning" THEN <<Issue("medium", "performance")>>
            ELSE << >>)
        \o (IF monOptions.hasRecoveryManager /\ c.isCorrupted
            THEN <<Issue("critical", "corruption")>> ELSE << >>)
        \o (IF monOptions.hasRecoveryManager /\ h.inconsistencies > 0
            THEN <<Issue(IF h.inconsistencies > HighInconsistencies THEN "high" ELSE "medium",
                         "consistency")>>
            ELSE << >>)
        \o (IF h.errorRate = "critical" THEN <<Issue("critical", "performance")>>
            ELSE IF h.errorRate = "warning" THEN <<Issue("medium", "performance")>>
            ELSE << >>)

RECURSIVE SelectCritical(_)
SelectCritical(issues) ==
    IF issues = << >> THEN << >>
    ELSE IF Head(issues).severity = "critical"
    THEN <<Head(issues)>> \o SelectCritical(Tail(issues))
    ELSE SelectCritical(Tail(issues))

\* attemptReconnection(async () => this.db) as the monitor calls it (line 454):
\* the connect function succeeds at once, unless maxRetries leaves no attempt.
MonitorReconnectSucceeds == 0 < options.maxRetries

\* One pass of the loop of attemptAutoRecovery (lines 448-473) for a critical
\* issue: the recovery action it calls ("none": no case of the switch) and the
\* events it emits.
RecoverIssue(issue, k) ==
    IF issue.type = "connection"
    THEN [action |-> "attemptReconnection", issue |-> k,
          events |-> <<[name |-> IF MonitorReconnectSucceeds THEN "auto-recovery-success"
                                 ELSE "auto-recovery-failed", issue |-> k]>>]
    ELSE IF issue.type = "corruption"
    THEN [action |-> "detectAndRepairCorruption", issue |-> k, events |-> << >>]
    ELSE IF issue.type = "consistency"
    THEN [action |-> "verifyAndCorrectInconsistencies", issue |-> k, events |-> << >>]
    ELSE [action |-> "none", issue |-> k, events |-> << >>]

\* attemptAutoRecovery (lines 441-475) over the critical issues, from the k-th
RECURSIVE attemptAutoRecovery(_, _)
attemptAutoRecovery(critical, k) ==
    IF k > Len(critical) THEN << >>
    ELSE <<RecoverIssue(critical[k], k)>> \o attemptAutoRecovery(critical, k + 1)

RECURSIVE EventsOf(_)
EventsOf(recoveries) ==
    IF recoveries = << >> THEN << >>
    ELSE Head(recoveries).events \o EventsOf(Tail(recoveries))

NoCheck == [ran |-> FALSE, healthy |-> TRUE, critical |-> << >>, recoveries |-> << >>,
            events |-> << >>]

\* performHealthCheck (lines 114-291) on what h describes
performHealthCheck(h) ==
    LET critical == SelectCritical(IssuesFound(h))
        healthy == critical = << >>
        recoveries == IF ~healthy /\ monOptions.autoRecovery /\ monOptions.hasRecoveryManager
                      THEN attemptAutoRecovery(critical, 1) ELSE << >>
    IN  [ran |-> TRUE, healthy |-> healthy, critical |-> critical, recoveries |-> recoveries,
         events |-> <<[name |-> IF healthy THEN "health-ok" ELSE "health-degraded", issue |-> 0]>>
                    \o EventsOf(recoveries)]

\* a recovery action of the ErrorRecoveryManager started by a caller has not returned
CallerRecoveryInProgress == recPc = "delay"

\* The whole of one performHealthCheck, called by the timer or by a caller.
\* It awaits nothing that yields to timers, so it runs in one piece; the
\* caller's attemptReconnection it may find waiting for its delay shares the
\* retry counter that the monitor's attemptReconnection resets.
HealthCheckRuns(h) ==
    LET out == performHealthCheck(h)
        acts == {i \in 1..Len(out.recoveries) : out.recoveries[i].action # "none"}
        reconnects == \E i \in acts : out.recoveries[i].action = "attemptReconnection"
    IN  /\ lastCheck' = out
        /\ overlapped' = (overlapped \/ (acts # {} /\ CallerRecoveryInProgress))
        /\ retryCount' = IF reconnects THEN 0 ELSE retryCount
        /\ UNCHANGED <<options, failFirst, connectCalls, recPc, recResult, recDelay>>
        /\ UNCHANGED <<monOptions, isMonitoring, timer>>
        /\ UNCHANGED nonMonVars

\* startMonitoring (lines 79-95)
StartMonitoring ==
    /\ ~isMonitoring
    /\ isMonitoring' = TRUE
    /\ timer' = monOptions.enableContinuousMonitoring
    /\ UNCHANGED <<monOptions, lastCheck, overlapped>>
    /\ UNCHANGED recVars
    /\ UNCHANGED nonMonVars

\* stopMonitoring (lines 100-113)
StopMonitoring ==
    /\ isMonitoring
    /\ isMonitoring' = FALSE
    /\ timer' = FALSE
    /\ UNCHANGED <<monOptions, lastCheck, overlapped>>
    /\ UNCHANGED recVars
    /\ UNCHANGED nonMonVars

\* the interval timer fires (lines 87-90)
MonitorTick(h) ==
    /\ timer
    /\ HealthCheckRuns(h)

\* performHealthCheck called directly
PerformHealthCheck(h) ==
    /\ ~timer
    /\ HealthCheckRuns(h)

InitMon ==
    /\ monOptions \in [autoRecovery : BOOLEAN, enableContinuousMonitoring : BOOLEAN,
                       hasRecoveryManager : BOOLEAN]
    /\ isMonitoring = FALSE
    /\ timer = FALSE
    /\ lastCheck = NoCheck
    /\ overlapped = FALSE

ParkedMon ==
    /\ monOptions = [autoRecovery |-> TRUE, enableContinuousMonitoring |-> TRUE,
                     hasRecoveryManager |-> TRUE]
    /\ isMonitoring = FALSE
    /\ timer = FALSE
    /\ lastCheck = NoCheck
    /\ overlapped = FALSE

NextMon ==
    \/ StartMonitoring
    \/ StopMonitoring
    \/ \E h \in HealthInputs : MonitorTick(h)
    \/ \E h \in HealthInputs : PerformHealthCheck(h)
    \/ AttemptReconnection
    \/ ReconnectRetry

\* ------------------------------------------------------------------------
\* startMonitoring and stopMonitoring with the timers they create and the
\* events they emit. m: isMonitoring, interval (this.monitoringInterval is
\* set), timers (the interval timers that exist), emitted.
\* ------------------------------------------------------------------------
\* (mutant) startMonitoring does not look at isMonitoring
NeverMonitoring(m) == FALSE

\* line 80
AlreadyMonitoring(m) == m.isMonitoring

\* startMonitoring (lines 79-95)
startMonitoring(m, continuous) ==
    IF AlreadyMonitoring(m) THEN m
    ELSE [m EXCEPT !.isMonitoring = TRUE,
                   !.interval = IF continuous THEN TRUE ELSE @,
                   !.timers = IF continuous THEN @ + 1 ELSE @,
                   !.emitted = Append(@, "monitoring-started")]

\* stopMonitoring (lines 100-113)
stopMonitoring(m) ==
    IF ~m.isMonitoring THEN m
    ELSE [m EXCEPT !.isMonitoring = FALSE,
                   !.interval = FALSE,
                   !.timers = IF m.interval THEN @ - 1 ELSE @,
                   !.emitted = Append(@, "monitoring-stopped")]

NoMonCall == [n |-> 0, op |-> "none", timers |-> 0, emitted |-> << >>]

MonitorState ==
    [isMonitoring |-> isMonitoring, interval |-> timer, timers |-> monLife.timers,
     emitted |-> monLife.emitted]

\* a call of op whose outcome is out
MonitorCall(op, out) ==
    /\ monLife.n < MaxMonCalls
    /\ isMonitoring' = out.isMonitoring
    /\ timer' = out.interval
    /\ monLife' = [n |-> monLife.n + 1, op |-> op, timers |-> out.timers, emitted |-> out.emitted]
    /\ UNCHANGED <<monOptions, lastCheck, overlapped>>
    /\ UNCHANGED nonMonLifeVars

StartMonitoringCall ==
    MonitorCall("startMonitoring",
                startMonitoring(MonitorState, monOptions.enableContinuousMonitoring))

StopMonitoringCall == MonitorCall("stopMonitoring", stopMonitoring(MonitorState))

InitMonLife == monLife = NoMonCall

ParkedMonLife == monLife = NoMonCall

NextMonLife ==
    \/ StartMonitoringCall
    \/ StopMonitoringCall

\* ------------------------------------------------------------------------
\* performHealthCheck: the error rate and the metrics history. A stored
\* sample is its errorCount field; a rate is a fraction num / den.
\* ------------------------------------------------------------------------
RecentWindow == 10
MaxMetricsHistory == 100
ErrorRateWarningPct == 5
ErrorRateCriticalPct == 10

\* metrics.slice(-k)
LastOf(metrics, k) ==
    IF Len(metrics) <= k THEN metrics ELSE SubSeq(metrics, Len(metrics) - k + 1, Len(metrics))

\* lines 202-206
errorRate(metrics) ==
    LET recentMetrics == LastOf(metrics, RecentWindow)
    IN  [num |-> Cardinality({k \in 1..Len(recentMetrics) : recentMetrics[k] > 0}),
         den |-> Len(recentMetrics)]

\* lines 208-222: the issue raised for the rate
ErrorRateIssue(rate) ==
    IF rate.den > 0 /\ rate.num * 100 > ErrorRateCriticalPct * rate.den THEN "critical"
    ELSE IF rate.den > 0 /\ rate.num * 100 > ErrorRateWarningPct * rate.den THEN "medium"
    ELSE "none"

\* (mutant) the history keeps its first maxMetricsHistory samples
addMetricsKeepOldest(metrics, sample) ==
    IF Len(metrics) < MaxMetricsHistory THEN Append(metrics, sample) ELSE metrics

\* addMetrics (lines 432-439)
addMetrics(metrics, sample) == LastOf(Append(metrics, sample), MaxMetricsHistory)

NoMetrics ==
    [n |-> 0, errorCount |-> 0, metrics |-> << >>, rate |-> [num |-> 0, den |-> 0],
     issue |-> "none", threw |-> FALSE, clean |-> 0]

\* One performHealthCheck. Every check of the try block catches its own
\* errors, so the block is left only when a listener of an event emitted
\* after the sample was stored throws (listenerThrows); the catch block then
\* counts the error (line 265). clean: the checks in a row, up to this one,
\* that did not throw.
HealthCheckWithMetrics(listenerThrows) ==
    /\ monRate.n < MaxChecks
    /\ LET rate == errorRate(monRate.metrics)
       IN  monRate' = [n |-> monRate.n + 1,
                       errorCount |-> IF listenerThrows THEN monRate.errorCount + 1
                                      ELSE monRate.errorCount,
                       metrics |-> addMetrics(monRate.metrics, monRate.errorCount),
                       rate |-> rate,
                       issue |-> ErrorRateIssue(rate),
                       threw |-> listenerThrows,
                       clean |-> IF listenerThrows THEN 0
                                 ELSE IF monRate.clean < RecentWindow THEN monRate.clean + 1
                                 ELSE RecentWindow]
    /\ UNCHANGED nonMonRateVars

InitMonRate == monRate = NoMetrics

ParkedMonRate == monRate = NoMetrics

NextMonRate ==
    \/ \E listenerThrows \in BOOLEAN : HealthCheckWithMetrics(listenerThrows)

----------------------------------------------------------------------------
(***************************************************************************)
(* DatabaseHealthMonitor: performHealthCheck with its catch block. Every   *)
(* check of the try block catches its own errors; the block is left by an  *)
(* error only when a listener of the event it emits throws (EventEmitter   *)
(* calls the listeners inside emit).                                       *)
(***************************************************************************)
NoCheckOutcome == [ran |-> FALSE, threw |-> FALSE, healthy |-> TRUE, issues |-> << >>,
                   events |-> << >>]

\* performHealthCheck (lines 119-292): the healthy flag and the issues list
\* of the returned result, and the events emitted. listenerThrows: a
\* listener of 'health-ok' / 'health-degraded' throws; the catch block
\* (lines 264-292) then emits 'health-check-failed' and returns a result
\* with one critical issue.
healthCheckOutcome(h, listenerThrows) ==
    LET out == performHealthCheck(h)
    IN  IF listenerThrows
        THEN [ran |-> TRUE, threw |-> TRUE, healthy |-> FALSE,
              issues |-> <<Issue("critical", "connection")>>,
              events |-> <<out.events[1].name, "health-check-failed">>]
        ELSE [ran |-> TRUE, threw |-> FALSE, healthy |-> out.healthy,
              issues |-> IssuesFound(h),
              events |-> [i \in 1..Len(out.events) |-> out.events[i].name]]

\* a performHealthCheck call returns
HealthCheckReturns(h, listenerThrows) ==
    /\ checkOutcome' = healthCheckOutcome(h, listenerThrows)
    /\ UNCHANGED nonCheckVars

InitCheck == checkOutcome = NoCheckOutcome

ParkedCheck == checkOutcome = NoCheckOutcome

NextCheck ==
    \/ \E h \in HealthInputs, listenerThrows \in BOOLEAN : HealthCheckReturns(h, listenerThrows)

----------------------------------------------------------------------------
(***************************************************************************)
(* DatabaseHealthMonitor: the sample history. A sample is identified by    *)
(* its timestamp; clock is the timestamp of the last sample taken.         *)
(***************************************************************************)
\* a health check stores its sample (lines 225-238)
SampleStored ==
    /\ history.clock < MaxSamples
    /\ history' = [clock |-> history.clock + 1,
                   metrics |-> addMetrics(history.metrics, history.clock + 1)]
    /\ UNCHANGED nonHistoryVars

InitHistory == history = [clock |-> 0, metrics |-> << >>]

ParkedHistory == history = [clock |-> 0, metrics |-> << >>]

NextHistory ==
    \/ SampleStored

----------------------------------------------------------------------------
(***************************************************************************)
(* DatabaseManager: initialize, disconnect, restore and the getters, on a  *)
(* database that opens and migrates without error (the failures of         *)
(* initialize are the subject of the DatabaseManager.initialize section).  *)
(* A connection is the number of the `new Database` call that made it; 0   *)
(* stands for null / undefined. The transaction manager and the health     *)
(* monitor are given by the connection they were constructed with.         *)
(***************************************************************************)
DefaultMaxRetries == 3

NoMonitor == [db |-> 0, isMonitoring |-> FALSE, timer |-> FALSE]

NewManager == [db |-> 0, isInitialized |-> FALSE, transactionManager |-> 0,
               healthMonitor |-> NoMonitor]

\* connect (lines 75-90)
connect(g, c) ==
    IF g.db # 0 THEN [g |-> g, c |-> c]
    ELSE [g |-> [g EXCEPT !.db = c.opened + 1], c |-> [c EXCEPT !.opened = @ + 1]]

\* disconnect (lines 107-118)
disconnect(g, c) ==
    IF g.db # 0 THEN [g |-> [g EXCEPT !.db = 0], c |-> [c EXCEPT !.closed = @ \cup {g.db}]]
    ELSE [g |-> g, c |-> c]

\* initialize (lines 23-53) when nothing fails; the monitor is constructed
\* with the default options and started (lines 45-47, monitor lines 62-72, 79-95)
initialize(g, c) ==
    IF g.isInitialized THEN [g |-> g, c |-> c]
    ELSE LET k == connect(g, c)
         IN  [g |-> [k.g EXCEPT !.transactionManager = k.g.db,
                                !.healthMonitor = [db |-> k.g.db, isMonitoring |-> TRUE,
                                                   timer |-> TRUE],
                                !.isInitialized = TRUE],
              c |-> k.c]

\* restore (lines 169-186): disconnect, copy the backup, connect
restore(g, c, copyFails) ==
    LET d == disconnect(g, c)
    IN  IF copyFails THEN d ELSE connect(d.g, d.c)

\* what a health check finds on connection conn: every statement on a closed
\* connection throws; an open one answers, with a file in any condition
CheckInputs(conn) ==
    {h \in HealthInputs : /\ h.connectivity = (conn \notin mgrConns.closed)
                          /\ h.response = "ok" /\ h.errorRate = "ok"
                          /\ h.inconsistencies = 0}

\* a call of op ends: it threw or returned; conn: the connection of what it
\* returned or worked on; events: the events emitted meanwhile
ManagerCall(op, threw, conn, events, after) ==
    /\ Len(mgrTrail) < MaxMgrCalls
    /\ mgr' = after.g
    /\ mgrConns' = after.c
    /\ mgrTrail' = Append(mgrTrail, [op |-> op, threw |-> threw, conn |-> conn,
                                      closed |-> conn \in mgrConns.closed, events |-> events])
    /\ UNCHANGED nonMgrVars

Unchanged == [g |-> mgr, c |-> mgrConns]

ManagerInitialize ==
    LET k == initialize(mgr, mgrConns)
    IN  ManagerCall("initialize", FALSE, k.g.db, << >>, k)

ManagerDisconnect == ManagerCall("disconnect", FALSE, mgr.db, << >>, disconnect(mgr, mgrConns))

ManagerRestore(copyFails) ==
    LET k == restore(mgr, mgrConns, copyFails)
    IN  ManagerCall("restore", copyFails, k.g.db, << >>, k)

\* getDatabase (lines 203-208)
GetDatabase == ManagerCall("getDatabase", mgr.db = 0, mgr.db, << >>, Unchanged)

\* getTransactionManager (lines 210-215)
GetTransactionManager ==
    ManagerCall("getTransactionManager", mgr.transactionManager = 0, mgr.transactionManager,
                << >>, Unchanged)

\* getHealthMonitor (lines 217-222)
GetHealthMonitor ==
    ManagerCall("getHealthMonitor", mgr.healthMonitor.db = 0, mgr.healthMonitor.db,
                << >>, Unchanged)

\* the interval timer of the manager's monitor fires (monitor lines 87-90):
\* performHealthCheck runs on the connection the monitor was constructed with
ManagerMonitorTick(h) ==
    /\ mgr.healthMonitor.timer
    /\ h \in CheckInputs(mgr.healthMonitor.db)
    /\ LET out == performHealthCheck(h)
       IN  ManagerCall("performHealthCheck", FALSE, mgr.healthMonitor.db,
                       [i \in 1..Len(out.events) |-> out.events[i].name], Unchanged)

InitMgr ==
    /\ mgr = NewManager
    /\ mgrConns = [opened |-> 0, closed |-> {}]
    /\ mgrTrail = << >>

ParkedMgr ==
    /\ mgr = NewManager
    /\ mgrConns = [opened |-> 0, closed |-> {}]
    /\ mgrTrail = << >>

\* the recovery manager the DatabaseManager constructs (lines 18-21), idle
InitRecDefault ==
    /\ options = [maxRetries |-> DefaultMaxRetries, retryDelay |-> DefaultRetryDelay,
                  backoffMultiplier |-> DefaultBackoffMultiplier]
    /\ failFirst = 0
    /\ retryCount = 0
    /\ connectCalls = 0
    /\ recPc = "idle"
    /\ recResult = NoRecResult
    /\ recDelay = 0

NextMgr ==
    \/ ManagerInitialize
    \/ ManagerDisconnect
    \/ \E copyFails \in BOOLEAN : ManagerRestore(copyFails)
    \/ GetDatabase
    \/ GetTransactionManager
    \/ GetHealthMonitor
    \/ \E h \in HealthInputs : ManagerMonitorTick(h)

----------------------------------------------------------------------------
(***************************************************************************)
(* DatabaseManager.initialize                                              *)
(* Its calls of attemptReconnection use the variables of the               *)
(* ErrorRecoveryManager; each call gets a fresh connect closure, which     *)
(* returns this.db once a connection was opened.                           *)
(***************************************************************************)
\* the failures the connect function still has in store after this call
FailuresLeft == IF connectCalls >= failFirst THEN 0 ELSE failFirst - connectCalls

\* attemptReconnection has returned to the manager: ready for the next call
ReconnectionConsumed ==
    /\ recPc' = "idle"
    /\ connectCalls' = 0
    /\ failFirst' = FailuresLeft
    /\ UNCHANGED <<options, retryCount, recResult, recDelay>>

\* initialize() is called (lines 23-30): not initialized, awaits mkdir
DmInitialize ==
    /\ dmPc = "idle"
    /\ dmPc' = "ensureDir"
    /\ UNCHANGED <<dmDb, dmInitialized, dmMigFails>>
    /\ UNCHANGED <<recVars, compVars>>
    /\ UNCHANGED nonDmVars

\* connectWithRecovery (lines 258-264) calls attemptReconnection
DmConnect ==
    /\ dmPc = "ensureDir"
    /\ recPc = "idle"
    /\ ReconnectIteration(0)
    /\ dmPc' = "connecting"
    /\ UNCHANGED <<options, failFirst>>
    /\ UNCHANGED <<dmDb, dmInitialized, dmMigFails, compVars>>
    /\ UNCHANGED nonDmVars

\* runMigrationsWithRecovery (lines 266-282) with a migration that fails:
\* corruption is looked for and repaired, the migrations are run again if a
\* repair succeeded, and the error is thrown.
MigrationRepairs == LET c == detectAndRepairCorruption(env.file)
                    IN  c.isCorrupted /\ c.repairSuccessful

\* attemptReconnection has returned to connectWithRecovery: the rest of the
\* try block of initialize (lines 33-53), into the catch block when the
\* connection or a migration failed.
DmAfterConnect ==
    /\ dmPc = "connecting"
    /\ recPc = "done"
    /\ IF ~recResult.success
       THEN /\ dmPc' = "catch"
            /\ UNCHANGED <<dmDb, dmInitialized, env>>
       ELSE IF dmMigFails
       THEN /\ dmPc' = "catch"
            /\ dmDb' = TRUE
            /\ env' = [env EXCEPT !.file = IF MigrationRepairs THEN "healthy" ELSE @]
            /\ UNCHANGED dmInitialized
       ELSE /\ dmPc' = "resolved"
            /\ dmDb' = TRUE
            /\ dmInitialized' = TRUE
            /\ UNCHANGED env
    /\ ReconnectionConsumed
    /\ UNCHANGED <<dmMigFails, repairOptions, compPc, tiers, dbFile, compResult>>
    /\ UNCHANGED nonDmVars

\* the catch block (lines 54-61) calls performComprehensiveRecovery, whose
\* step 1 calls attemptReconnection
DmCatch ==
    /\ dmPc = "catch"
    /\ recPc = "idle"
    /\ ReconnectIteration(0)
    /\ dmPc' = "recovering"
    /\ UNCHANGED <<options, failFirst>>
    /\ UNCHANGED <<dmDb, dmInitialized, dmMigFails, compVars>>
    /\ UNCHANGED nonDmVars

\* performComprehensiveRecovery goes on after step 1 and returns (lines
\* 63-72): initialize() again after a success, reject otherwise.
DmAfterRecovery ==
    /\ dmPc = "recovering"
    /\ recPc = "done"
    /\ LET l1 == <<[tier |-> "reconnect", ok |-> recResult.success]>>
           out == IF ReturnsAt(recResult.success)
                  THEN [log |-> l1, file |-> dbFile, success |-> TRUE, action |-> "reconnect"]
                  ELSE LaterTiers(l1, dbFile)
       IN  /\ tiers' = out.log
           /\ dbFile' = out.file
           /\ compResult' = [success |-> out.success, action |-> out.action]
           /\ env' = [env EXCEPT !.file = IF out.action = "repair" THEN "healthy" ELSE @]
           /\ dmDb' = (dmDb \/ recResult.success)
           /\ dmPc' = IF out.success THEN "ensureDir" ELSE "rejected"
    /\ ReconnectionConsumed
    /\ UNCHANGED <<dmInitialized, dmMigFails, repairOptions, compPc>>
    /\ UNCHANGED nonDmVars

InitDm ==
    /\ dmPc = "idle"
    /\ dmDb = FALSE
    /\ dmInitialized = FALSE
    /\ dmMigFails \in BOOLEAN

ParkedDm ==
    /\ dmPc = "idle"
    /\ dmDb = FALSE
    /\ dmInitialized = FALSE
    /\ dmMigFails = FALSE

NextDm ==
    \/ DmInitialize
    \/ DmConnect
    \/ ReconnectRetry
    \/ DmAfterConnect
    \/ DmCatch
    \/ DmAfterRecovery

----------------------------------------------------------------------------
(***************************************************************************)
(* ErrorRecoveryManager.verifyAndCorrectInconsistencies                    *)
(* A row of users: id (primary key), dni, edad, created_at, updated_at;    *)
(* a timestamp 0 stands for NULL, which SQLite sorts before every value.   *)
(***************************************************************************)
MaxEdad == 120
MinDni == 1000000
MaxDni == 99999999

\* CURRENT_TIMESTAMP at the time of a call: later than every stored timestamp
Now == MaxTime + 1

DniValues == {MinDni - 1, MinDni, MaxDni}

\* the <<dni, edad>> of a row: dni out of range, valid, edad out of range, valid
DniEdadValues == {<<MinDni - 1, MaxEdad>>, <<MinDni, MaxEdad>>, <<MinDni, 0>>,
                  <<MaxDni, MaxEdad>>}

\* the timestamps of a row: both set, or created_at missing, or updated_at missing
Timestamps == {<<c, c>> : c \in 0..MaxTime} \cup {<<1, 0>>}

RowsOf(i) == {[id |-> i, dni |-> de[1], edad |-> de[2],
               created_at |-> t[1], updated_at |-> t[2]] :
                de \in DniEdadValues, t \in Timestamps}

\* an order on the contents of rows
RowBefore(a, b) ==
    LET ka == <<a.dni, a.edad, a.created_at, a.updated_at>>
        kb == <<b.dni, b.edad, b.created_at, b.updated_at>>
    IN  \E i \in 1..4 : ka[i] < kb[i] /\ \A j \in 1..(i - 1) : ka[j] = kb[j]

\* The tables of at most MaxUsers rows. The ids only name the rows, so of the
\* tables that differ by a renaming of ids one is listed: ids 1..n, contents
\* in order.
UserTables ==
    UNION {{ {[f[i] EXCEPT !.id = i] : i \in 1..n} : f \in {g \in [1..n -> RowsOf(0)] :
                                          \A i \in 1..(n - 1) : ~RowBefore(g[i + 1], g[i])} }
              : n \in 0..MaxUsers}

\* findDuplicateDnis (lines 408-426): the dni values carried by more than one row
findDuplicateDnis(u) == {d \in {r.dni : r \in u} : Cardinality({r \in u : r.dni = d}) > 1}

\* (mutant) the newest row of a group comes first
ComesFirstDesc(r, group) == \A q \in group : q.created_at <= r.created_at

\* ORDER BY created_at ASC (lines 438-446): r can be the first row of the result
ComesFirst(r, group) == \A q \in group : r.created_at <= q.created_at

\* resolveDuplicateDnis (lines 428-463): of every duplicated dni the first
\* row is kept (keep[d] is its id), the rest is deleted by id.
resolveDuplicateDnis(u, dups, keep) == {r \in u : r.dni \in dups => r.id = keep[r.dni]}

\* the choices of first rows that ORDER BY allows for table u
KeepChoices(u) ==
    {keep \in [findDuplicateDnis(u) -> 1..MaxUsers] :
        \A d \in findDuplicateDnis(u) :
            \E r \in u : /\ r.dni = d /\ r.id = keep[d]
                         /\ ComesFirst(r, {q \in u : q.dni = d})}

\* findInvalidRecords (lines 465-498)
findInvalidRecords(u) ==
    {r \in u : r.edad <= 0 \/ r.edad > MaxEdad \/ r.dni < MinDni \/ r.dni > MaxDni}

\* fixInvalidRecords (lines 500-516): invalid rows are deleted
fixInvalidRecords(u, invalid) == u \ invalid

\* findMissingTimestamps (lines 518-534)
findMissingTimestamps(u) == {r \in u : r.created_at = 0 \/ r.updated_at = 0}

\* updateMissingTimestamps (lines 536-556): COALESCE(column, CURRENT_TIMESTAMP)
updateMissingTimestamps(u) ==
    {[r EXCEPT !.created_at = IF @ = 0 THEN Now ELSE @,
               !.updated_at = IF @ = 0 THEN Now ELSE @] : r \in u}

\* verifyAndCorrectInconsistencies (lines 188-238)
verifyAndCorrectInconsistencies(u, orph, keep) ==
    LET dups == findDuplicateDnis(u)
        u1 == resolveDuplicateDnis(u, dups, keep)
        invalid == findInvalidRecords(u1)
        u2 == fixInvalidRecords(u1, invalid)
        missing == findMissingTimestamps(u2)
        u3 == updateMissingTimestamps(u2)
    IN  [users |-> u3,
         orphans |-> {},
         res |-> [inconsistenciesFound |-> Cardinality(orph) + Cardinality(dups)
                                           + Cardinality(invalid) + Cardinality(missing),
                  corrected |-> Cardinality(orph) + Cardinality(u \ u1)
                                + Cardinality(invalid) + Cardinality(missing),
                  errors |-> 0]]

NoConsResult == [inconsistenciesFound |-> 0, corrected |-> 0, errors |-> 0]

VerifyAndCorrectInconsistencies ==
    /\ consCalls < MaxConsCalls
    /\ \E keep \in KeepChoices(users) :
          LET out == verifyAndCorrectInconsistencies(users, orphans, keep)
          IN  /\ users' = out.users
              /\ orphans' = out.orphans
              /\ consResult' = out.res
    /\ consBefore' = [users |-> users, orphans |-> orphans]
    /\ consCalls' = consCalls + 1
    /\ UNCHANGED nonConsVars

InitCons ==
    /\ users \in UserTables
    /\ orphans \in {1..n : n \in 0..MaxOrphans}
    /\ consResult = NoConsResult
    /\ consBefore = [users |-> {}, orphans |-> {}]
    /\ consCalls = 0

ParkedCons ==
    /\ users = {}
    /\ orphans = {}
    /\ consResult = NoConsResult
    /\ consBefore = [users |-> {}, orphans |-> {}]
    /\ consCalls = 0

NextCons ==
    \/ VerifyAndCorrectInconsistencies

----------------------------------------------------------------------------
(***************************************************************************)
(* ConnectionPool                                                          *)
(***************************************************************************)
CallIds == 1..NumCalls

\* pc: where the call stands; i: connections its initialize() has created;
\* conn: the handle it created or was granted; waited/due: the poll timer of
\* waitForConnection. History kept for the properties: sawFull (max grants
\* were outstanding and nothing released when it was called), relSeen (a
\* release returned a handle since it began to wait), sat (total = max when
\* it began to wait), waitedFor (it was
\* granted its handle by waitForConnection), delta (net change of
\* the pool's inUse count made by its own acquire and release).
IdleCall == [pc |-> "idle", kind |-> "get", i |-> 0, conn |-> 0, waited |-> 0,
             due |-> FALSE, sawFull |-> FALSE, sat |-> FALSE, waitedFor |-> FALSE,
             relSeen |-> FALSE, delta |-> 0]

InFlight == {c \in CallIds : calls[c].pc \in {"initLoop", "afterInit", "created"}}

InUseCount(conns) == Cardinality({id \in DOMAIN conns : conns[id]})

\* getStats(): total, available, inUse, min, max
getStats == [total |-> Cardinality(DOMAIN connections),
             available |-> Len(available),
             inUse |-> InUseCount(connections),
             min |-> config.min,
             max |-> config.max]

\* createConnection(): a new ConnectionInfo with inUse false is put in the map
\* AND its id is pushed on the available list.
createConnection(conns, avail) ==
    LET id == Cardinality(DOMAIN conns) + 1
    IN  [conns |-> conns @@ (id :> FALSE), avail |-> Append(avail, id), id |-> id]

\* available.pop(): the last id of the list
PopId(avail) == avail[Len(avail)]
PopRest(avail) == SubSeq(avail, 1, Len(avail) - 1)

\* calls holding a granted handle that they have not released
Holding == {c \in CallIds : calls[c].pc \in {"granted", "analyzing"}}

\* The call record after getConnection resolved with handle id. A plain
\* getConnection caller then holds the handle; executeWithAnalysis enters its
\* try block and awaits the query analysis. d is the change of the pool's
\* inUse count made by this grant.
Granted(r, id, d) ==
    [IdleCall EXCEPT !.pc = IF r.kind = "ewa" THEN "analyzing" ELSE "granted",
                     !.kind = r.kind, !.conn = id, !.delta = d,
                     !.sawFull = r.sawFull, !.waitedFor = (r.pc = "waiting"),
                     !.sat = r.sat, !.relSeen = r.relSeen]

\* The record of a call that is over.
Over(r, pcv, d) == [IdleCall EXCEPT !.pc = pcv, !.kind = r.kind, !.delta = d]

\* getConnection rejected: executeWithAnalysis throws before its try block.
Rejected(r) == Over(r, IF r.kind = "ewa" THEN "threw" ELSE "timedout", 0)

\* The synchronous part of getConnection after the initialization check
\* (lines 51-72) for the call whose record is r.
TryGet(c, r) ==
    IF Len(available) > 0
    THEN LET id == PopId(available)
             conns2 == [connections EXCEPT ![id] = TRUE]
         IN  /\ available' = PopRest(available)
             /\ connections' = conns2
             /\ calls' = [calls EXCEPT ![c] =
                    Granted(r, id, InUseCount(conns2) - InUseCount(connections))]
    ELSE IF Cardinality(DOMAIN connections) < config.max
    THEN LET cc == createConnection(connections, available)
         IN  /\ connections' = cc.conns
             /\ available' = cc.avail
             /\ calls' = [calls EXCEPT ![c] = [r EXCEPT !.pc = "created", !.conn = cc.id]]
    ELSE \* waitForConnection: first check finds nothing, timer armed
         /\ calls' = [calls EXCEPT ![c] =
                [r EXCEPT !.pc = "waiting", !.waited = 0, !.due = FALSE,
                          !.relSeen = FALSE,
                          !.sat = (Cardinality(DOMAIN connections) = config.max)]]
         /\ UNCHANGED <<connections, available>>

\* A caller invokes getConnection (kind "get") or executeWithAnalysis (kind
\* "ewa", which starts with getConnection). Calls start in index order.
StartCall(c, k) ==
    /\ calls[c].pc = "idle"
    /\ IF c = 1 THEN TRUE ELSE calls[c - 1].pc # "idle"
    /\ Cardinality(InFlight) < MaxInFlight
    /\ LET r == [calls[c] EXCEPT !.kind = k,
                     !.sawFull = (Cardinality(Holding) >= config.max /\ ~released)]
       IN  IF ~isInitialized
           THEN \* initialize(): first loop iteration runs up to its await
                IF config.min > 0
                THEN LET cc == createConnection(connections, available)
                     IN  /\ connections' = cc.conns
                         /\ available' = cc.avail
                         /\ calls' = [calls EXCEPT ![c] = [r EXCEPT !.pc = "initLoop", !.i = 1]]
                         /\ UNCHANGED isInitialized
                ELSE /\ isInitialized' = TRUE
                     /\ calls' = [calls EXCEPT ![c] = [r EXCEPT !.pc = "afterInit"]]
                     /\ UNCHANGED <<connections, available>>
           ELSE /\ TryGet(c, r)
                /\ UNCHANGED isInitialized
    /\ UNCHANGED <<config, released>>
    /\ UNCHANGED nonPoolVars

\* getConnection() called directly (lines 46-73)
GetConnection(c) ==
    /\ calls[c].pc = "idle"
    /\ StartCall(c, "get")

\* executeWithAnalysis (optimized-database-manager.ts line 76): getConnection
\* through the manager.
ExecuteWithAnalysis(c) ==
    /\ Cardinality({c2 \in CallIds : calls[c2].kind = "ewa"}) < MaxEwa
    /\ StartCall(c, "ewa")

\* initialize() resumes after `await this.createConnection()`.
InitializeResume(c) ==
    /\ calls[c].pc = "initLoop"
    /\ IF calls[c].i < config.min
       THEN LET cc == createConnection(connections, available)
            IN  /\ connections' = cc.conns
                /\ available' = cc.avail
                /\ calls' = [calls EXCEPT ![c].i = @ + 1]
                /\ UNCHANGED isInitialized
       ELSE /\ isInitialized' = TRUE
            /\ calls' = [calls EXCEPT ![c] = [@ EXCEPT !.pc = "afterInit", !.i = 0]]
            /\ UNCHANGED <<connections, available>>
    /\ UNCHANGED <<config, released>>
    /\ UNCHANGED nonPoolVars

\* getConnection resumes after `await this.initialize()`.
AfterInitialize(c) ==
    /\ calls[c].pc = "afterInit"
    /\ TryGet(c, calls[c])
    /\ UNCHANGED <<config, isInitialized, released>>
    /\ UNCHANGED nonPoolVars

\* getConnection resumes after `await this.createConnection()` (lines 64-68).
AfterCreate(c) ==
    /\ calls[c].pc = "created"
    /\ LET id == calls[c].conn
           conns2 == [connections EXCEPT ![id] = TRUE]
       IN  /\ connections' = conns2
           /\ calls' = [calls EXCEPT ![c] =
                  Granted(calls[c], id, InUseCount(conns2) - InUseCount(connections))]
    /\ UNCHANGED <<config, available, isInitialized, released>>
    /\ UNCHANGED nonPoolVars

\* One poll interval (10 ms) passes for every waiting call.
Tick ==
    /\ \E c \in CallIds : calls[c].pc = "waiting"
                          /\ (~calls[c].due \/ calls[c].waited <= config.timeout)
    /\ calls' = [c \in CallIds |->
                    IF calls[c].pc = "waiting"
                    THEN [calls[c] EXCEPT !.due = TRUE,
                                         !.waited = Min2(@ + 1, config.timeout + 1)]
                    ELSE calls[c]]
    /\ UNCHANGED <<config, connections, available, isInitialized, released>>
    /\ UNCHANGED nonPoolVars

\* checkForConnection run by the timer of waitForConnection (lines 161-179).
CheckForConnection(c) ==
    /\ calls[c].pc = "waiting"
    /\ calls[c].due
    /\ IF Len(available) > 0
       THEN LET id == PopId(available)
                conns2 == [connections EXCEPT ![id] = TRUE]
            IN  /\ available' = PopRest(available)
                /\ connections' = conns2
                /\ calls' = [calls EXCEPT ![c] =
                       Granted(calls[c], id, InUseCount(conns2) - InUseCount(connections))]
       ELSE /\ calls' = [calls EXCEPT ![c] =
                   IF calls[c].waited > config.timeout
                   THEN Rejected(calls[c])
                   ELSE [calls[c] EXCEPT !.due = FALSE]]
            /\ UNCHANGED <<connections, available>>
    /\ UNCHANGED <<config, isInitialized, released>>
    /\ UNCHANGED nonPoolVars

\* releaseConnection(database) (lines 75-87) for a handle of the pool.
ReleaseOf(id) ==
    [conns |-> [connections EXCEPT ![id] = FALSE], avail |-> Append(available, id)]

\* A getConnection caller released the handle it was granted (once per grant).
ReleaseConnection(c) ==
    /\ calls[c].pc = "granted"
    /\ LET rl == ReleaseOf(calls[c].conn)
       IN  /\ connections' = rl.conns
           /\ available' = rl.avail
    /\ calls' = [c2 \in CallIds |->
                    IF c2 = c THEN Over(calls[c], "released", 0)
                    ELSE IF calls[c2].pc = "waiting" THEN [calls[c2] EXCEPT !.relSeen = TRUE]
                    ELSE calls[c2]]
    /\ released' = TRUE
    /\ UNCHANGED <<config, isInitialized>>
    /\ UNCHANGED nonPoolVars

\* executeWithAnalysis after `await analyzeQuery` (lines 78-88): the analysis
\* throws, or the operation throws, or both succeed; the finally block
\* released the connection in every case.
FinishWithAnalysis(c, outcome) ==
    /\ calls[c].pc = "analyzing"
    /\ LET rl == ReleaseOf(calls[c].conn)
       IN  /\ connections' = rl.conns
           /\ available' = rl.avail
           /\ calls' = [c2 \in CallIds |->
                  IF c2 = c
                  THEN Over(calls[c], IF outcome = "ok" THEN "returned" ELSE "threw",
                            calls[c].delta + InUseCount(rl.conns) - InUseCount(connections))
                  ELSE IF calls[c2].pc = "waiting" THEN [calls[c2] EXCEPT !.relSeen = TRUE]
                  ELSE calls[c2]]
    /\ released' = TRUE
    /\ UNCHANGED <<config, isInitialized>>
    /\ UNCHANGED nonPoolVars

\* ------------------------------------------------------------------------
\* releaseConnection with any database object, closeAll
\* ------------------------------------------------------------------------
\* a database object that no ConnectionInfo of the pool holds
ForeignHandle == 0

\* (mutant) every object is taken for a connection of the pool
AnyHandle(conns, h) == TRUE

\* lines 77-78: some connectionInfo.database === database
KnownHandle(conns, h) == h \in DOMAIN conns

\* releaseConnection(database) (lines 75-87)
releaseConnection(conns, avail, h) ==
    IF KnownHandle(conns, h)
    THEN [conns |-> [id \in DOMAIN conns |-> IF id = h THEN FALSE ELSE conns[id]],
          avail |-> Append(avail, h)]
    ELSE [conns |-> conns, avail |-> avail]

NoLifeOp == [n |-> 0, op |-> "none", threw |-> FALSE, closeCalls |-> {}, closeThrew |-> {},
             borrowed |-> {}]

\* releaseConnection is called with a database object that is not the pool's
ReleaseForeign ==
    /\ poolLast.n < MaxLifeOps
    /\ calls # << >>
    /\ LET rl == releaseConnection(connections, available, ForeignHandle)
       IN  /\ connections' = rl.conns
           /\ available' = rl.avail
    /\ poolLast' = [NoLifeOp EXCEPT !.n = poolLast.n + 1, !.op = "releaseConnection"]
    /\ UNCHANGED <<config, isInitialized, calls, released>>
    /\ UNCHANGED nonLifeVars

\* (mutant) an error of close() leaves the loop
ErrorLeavesLoop(closeThrows) == closeThrows

\* lines 91-95: the error of close() is caught and logged
ErrorEscapes(closeThrows) == FALSE

\* the loop of closeAll (lines 90-96) over the ids from id on; T: the
\* connections whose close() throws
RECURSIVE CloseLoop(_, _, _, _)
CloseLoop(conns, id, T, st) ==
    IF id \notin DOMAIN conns THEN st
    ELSE LET st2 == [st EXCEPT !.closeCalls = @ \cup {id}]
         IN  IF ErrorEscapes(id \in T) THEN [st2 EXCEPT !.threw = TRUE]
             ELSE CloseLoop(conns, id + 1, T, st2)

\* closeAll() (lines 89-103)
closeAll(conns, avail, init, T) ==
    LET lp == CloseLoop(conns, 1, T, [closeCalls |-> {}, threw |-> FALSE])
    IN  IF lp.threw
        THEN [conns |-> conns, avail |-> avail, init |-> init,
              closeCalls |-> lp.closeCalls, threw |-> TRUE]
        ELSE [conns |-> << >>, avail |-> << >>, init |-> FALSE,
              closeCalls |-> lp.closeCalls, threw |-> FALSE]

\* no close() throws, or the close() of one connection
OneCloseFailure == {{}} \cup {{id} : id \in 1..MaxPoolMax}

\* closeAll() is called while no getConnection is suspended at its
\* createConnection. A handle lent before the call is no connection of the
\* pool afterwards.
CloseAll(T) ==
    /\ poolLast.n < MaxLifeOps
    /\ calls # << >>
    /\ T \subseteq DOMAIN connections
    /\ \A c \in CallIds : calls[c].pc # "created"
    /\ LET out == closeAll(connections, available, isInitialized, T)
       IN  /\ connections' = out.conns
           /\ available' = out.avail
           /\ isInitialized' = out.init
           /\ poolLast' = [n |-> poolLast.n + 1, op |-> "closeAll", threw |-> out.threw,
                           closeCalls |-> out.closeCalls, closeThrew |-> T,
                           borrowed |-> {id \in DOMAIN connections : connections[id]}]
           /\ calls' = [c \in CallIds |->
                           IF calls[c].pc = "granted" /\ ~out.threw
                           THEN Over(calls[c], "stale", 0) ELSE calls[c]]
    /\ UNCHANGED <<config, released>>
    /\ UNCHANGED nonLifeVars

\* the getConnection calls made around closeAll
LifeCalls == 1..(NumCalls - 2)

\* getConnection() called by a caller that awaits each of its calls
GetConnectionInTurn(c) ==
    /\ InFlight = {}
    /\ GetConnection(c)

InitLife == poolLast = NoLifeOp

ParkedLife == poolLast = NoLifeOp

NextPoolLife ==
    \/ \E c \in LifeCalls : GetConnectionInTurn(c)
    \/ \E c \in CallIds : InitializeResume(c)
    \/ \E c \in CallIds : AfterInitialize(c)
    \/ \E c \in CallIds : AfterCreate(c)
    \/ \E c \in CallIds : ReleaseConnection(c)
    \/ ReleaseForeign
    \/ \E T \in OneCloseFailure : CloseAll(T)

Configs == {cf \in [min : 0..MaxPoolMax, max : 1..MaxPoolMax, timeout : 1..MaxTimeout] :
                cf.min <= cf.max}

InitPool ==
    /\ ParkedTx /\ ParkedMig /\ ParkedRec /\ ParkedCons /\ ParkedComp /\ ParkedMon
    /\ ParkedDm /\ ParkedVal /\ ParkedRb /\ ParkedLife /\ ParkedMonLife /\ ParkedMonRate /\ ParkedOutcome /\ ParkedTxCalls /\ ParkedAttempt /\ ParkedHistory /\ ParkedMgr /\ ParkedCheck
    /\ config \in Configs
    /\ connections = << >>
    /\ available = << >>
    /\ isInitialized = FALSE
    /\ calls = [c \in CallIds |-> IdleCall]
    /\ released = FALSE

ParkedPool ==
    /\ config = [min |-> 0, max |-> 1, timeout |-> 1]
    /\ connections = << >>
    /\ available = << >>
    /\ isInitialized = FALSE
    /\ calls = << >>
    /\ released = FALSE

NextPool ==
    \/ \E c \in CallIds : GetConnection(c)
    \/ \E c \in CallIds : ExecuteWithAnalysis(c)
    \/ \E c \in CallIds : InitializeResume(c)
    \/ \E c \in CallIds : AfterInitialize(c)
    \/ \E c \in CallIds : AfterCreate(c)
    \/ Tick
    \/ \E c \in CallIds : CheckForConnection(c)
    \/ \E c \in CallIds : ReleaseConnection(c)
    \/ \E c \in CallIds, o \in {"ok", "analysisThrows", "operationThrows"} :
            FinishWithAnalysis(c, o)

SpecPool == InitPool /\ [][NextPool]_vars

\* InitPool parks poolLast; no call of this specification waits
InitPoolLife == InitPool /\ config.timeout = 1

SpecPoolLife == InitPoolLife /\ [][NextPoolLife]_vars

InitTxSpec == InitTx /\ ParkedPool /\ ParkedMig /\ ParkedRec /\ ParkedCons /\ ParkedComp /\ ParkedMon /\ ParkedDm /\ ParkedVal /\ ParkedRb /\ ParkedLife /\ ParkedMonLife /\ ParkedMonRate /\ ParkedOutcome /\ ParkedTxCalls /\ ParkedAttempt /\ ParkedHistory /\ ParkedMgr /\ ParkedCheck

InitMigSpec == InitMig /\ ParkedPool /\ ParkedTx /\ ParkedRec /\ ParkedCons /\ ParkedComp /\ ParkedMon /\ ParkedDm /\ ParkedVal /\ ParkedRb /\ ParkedLife /\ ParkedMonLife /\ ParkedMonRate /\ ParkedOutcome /\ ParkedTxCalls /\ ParkedAttempt /\ ParkedHistory /\ ParkedMgr /\ ParkedCheck

SpecMig == InitMigSpec /\ [][NextMig]_vars

InitRecSpec == InitRec /\ ParkedPool /\ ParkedTx /\ ParkedMig /\ ParkedCons /\ ParkedComp /\ ParkedMon /\ ParkedDm /\ ParkedVal /\ ParkedRb /\ ParkedLife /\ ParkedMonLife /\ ParkedMonRate /\ ParkedOutcome /\ ParkedTxCalls /\ ParkedAttempt /\ ParkedHistory /\ ParkedMgr /\ ParkedCheck

InitConsSpec == InitCons /\ ParkedPool /\ ParkedTx /\ ParkedMig /\ ParkedRec /\ ParkedComp /\ ParkedMon /\ ParkedDm /\ ParkedVal /\ ParkedRb /\ ParkedLife /\ ParkedMonLife /\ ParkedMonRate /\ ParkedOutcome /\ ParkedTxCalls /\ ParkedAttempt /\ ParkedHistory /\ ParkedMgr /\ ParkedCheck

SpecCons == InitConsSpec /\ [][NextCons]_vars

InitCompSpec == InitRec /\ InitComp /\ ParkedPool /\ ParkedTx /\ ParkedMig /\ ParkedCons /\ ParkedMon /\ ParkedDm /\ ParkedVal /\ ParkedRb /\ ParkedLife /\ ParkedMonLife /\ ParkedMonRate /\ ParkedOutcome /\ ParkedTxCalls /\ ParkedAttempt /\ ParkedHistory /\ ParkedMgr /\ ParkedCheck

SpecComp == InitCompSpec /\ [][NextComp]_vars

InitMonSpec ==
    InitMon /\ InitRec /\ options.retryDelay = DefaultRetryDelay /\ ParkedPool /\ ParkedTx /\ ParkedMig /\ ParkedCons /\ ParkedComp /\ ParkedDm /\ ParkedVal /\ ParkedRb /\ ParkedLife /\ ParkedMonLife /\ ParkedMonRate /\ ParkedOutcome /\ ParkedTxCalls /\ ParkedAttempt /\ ParkedHistory /\ ParkedMgr /\ ParkedCheck

SpecMon == InitMonSpec /\ [][NextMon]_vars

InitDmSpec ==
    /\ InitDm /\ InitRec /\ InitComp /\ env.file # "unopenable"
    /\ ParkedPool /\ ParkedTx /\ ParkedMig /\ ParkedCons /\ ParkedMon /\ ParkedVal /\ ParkedRb /\ ParkedLife /\ ParkedMonLife /\ ParkedMonRate /\ ParkedOutcome /\ ParkedTxCalls /\ ParkedAttempt /\ ParkedHistory /\ ParkedMgr /\ ParkedCheck

InitValSpec ==
    /\ InitVal
    /\ ParkedPool /\ ParkedTx /\ ParkedMig /\ ParkedRec /\ ParkedCons /\ ParkedComp /\ ParkedMon
    /\ ParkedDm /\ ParkedRb /\ ParkedLife /\ ParkedMonLife /\ ParkedMonRate /\ ParkedOutcome /\ ParkedTxCalls /\ ParkedAttempt /\ ParkedHistory /\ ParkedMgr /\ ParkedCheck

InitMigRbSpec ==
    /\ InitMig /\ InitRb /\ migrations \in ValidatedLists
    /\ ParkedPool /\ ParkedTx /\ ParkedRec /\ ParkedCons /\ ParkedComp /\ ParkedMon
    /\ ParkedDm /\ ParkedVal /\ ParkedLife /\ ParkedMonLife /\ ParkedMonRate /\ ParkedOutcome /\ ParkedTxCalls /\ ParkedAttempt /\ ParkedHistory /\ ParkedMgr /\ ParkedCheck

SpecMigRb == InitMigRbSpec /\ [][NextMigRb]_vars

SpecVal == InitValSpec /\ [][NextVal]_vars

InitMonLifeSpec ==
    /\ InitMon /\ InitMonLife
    /\ ParkedPool /\ ParkedTx /\ ParkedMig /\ ParkedRec /\ ParkedCons /\ ParkedComp
    /\ ParkedDm /\ ParkedVal /\ ParkedRb /\ ParkedLife /\ ParkedMonRate /\ ParkedOutcome /\ ParkedTxCalls /\ ParkedAttempt /\ ParkedHistory /\ ParkedMgr /\ ParkedCheck

SpecMonLife == InitMonLifeSpec /\ [][NextMonLife]_vars

InitMonRateSpec ==
    /\ InitMonRate
    /\ ParkedPool /\ ParkedTx /\ ParkedMig /\ ParkedRec /\ ParkedCons /\ ParkedComp /\ ParkedMon
    /\ ParkedDm /\ ParkedVal /\ ParkedRb /\ ParkedLife /\ ParkedMonLife /\ ParkedOutcome /\ ParkedTxCalls /\ ParkedAttempt /\ ParkedHistory /\ ParkedMgr /\ ParkedCheck

SpecMonRate == InitMonRateSpec /\ [][NextMonRate]_vars

InitOutcomeSpec ==
    /\ InitOutcome /\ InitComp
    /\ ParkedPool /\ ParkedTx /\ ParkedMig /\ ParkedRec /\ ParkedCons /\ ParkedMon
    /\ ParkedDm /\ ParkedVal /\ ParkedRb /\ ParkedLife /\ ParkedMonLife /\ ParkedMonRate /\ ParkedTxCalls /\ ParkedAttempt /\ ParkedHistory /\ ParkedMgr /\ ParkedCheck

SpecOutcome == InitOutcomeSpec /\ [][NextOutcome]_vars

InitTxCallsSpec ==
    /\ InitTxCalls
    /\ ParkedPool /\ ParkedMig /\ ParkedRec /\ ParkedCons /\ ParkedComp /\ ParkedMon
    /\ ParkedDm /\ ParkedVal /\ ParkedRb /\ ParkedLife /\ ParkedMonLife /\ ParkedMonRate /\ ParkedOutcome /\ ParkedAttempt /\ ParkedHistory /\ ParkedMgr /\ ParkedCheck

SpecTxCalls == InitTxCallsSpec /\ [][NextTxCalls]_vars

InitTxRetrySpec ==
    /\ InitTxRetry
    /\ ParkedPool /\ ParkedMig /\ ParkedRec /\ ParkedCons /\ ParkedComp /\ ParkedMon
    /\ ParkedDm /\ ParkedVal /\ ParkedRb /\ ParkedLife /\ ParkedMonLife /\ ParkedMonRate /\ ParkedOutcome /\ ParkedTxCalls /\ ParkedAttempt /\ ParkedHistory /\ ParkedMgr /\ ParkedCheck

SpecTxRetry == InitTxRetrySpec /\ [][NextTxRetry]_vars

InitAttemptSpec ==
    /\ InitAttempt
    /\ ParkedPool /\ ParkedTx /\ ParkedMig /\ ParkedRec /\ ParkedCons /\ ParkedComp /\ ParkedMon
    /\ ParkedDm /\ ParkedVal /\ ParkedRb /\ ParkedLife /\ ParkedMonLife /\ ParkedMonRate /\ ParkedOutcome /\ ParkedTxCalls /\ ParkedHistory /\ ParkedMgr /\ ParkedCheck

SpecTxAttempt == InitAttemptSpec /\ [][NextAttempt]_vars

InitHistorySpec ==
    /\ InitHistory
    /\ ParkedPool /\ ParkedTx /\ ParkedMig /\ ParkedRec /\ ParkedCons /\ ParkedComp /\ ParkedMon
    /\ ParkedDm /\ ParkedVal /\ ParkedRb /\ ParkedLife /\ ParkedMonLife /\ ParkedMonRate /\ ParkedOutcome /\ ParkedTxCalls /\ ParkedAttempt /\ ParkedMgr /\ ParkedCheck

SpecMonHistory == InitHistorySpec /\ [][NextHistory]_vars

InitMgrSpec ==
    /\ InitMgr /\ InitRecDefault
    /\ ParkedPool /\ ParkedTx /\ ParkedMig /\ ParkedCons /\ ParkedComp /\ ParkedMon
    /\ ParkedDm /\ ParkedVal /\ ParkedRb /\ ParkedLife /\ ParkedMonLife /\ ParkedMonRate /\ ParkedOutcome /\ ParkedTxCalls /\ ParkedAttempt /\ ParkedHistory /\ ParkedCheck

SpecMgr == InitMgrSpec /\ [][NextMgr]_vars

InitCheckSpec ==
    /\ InitCheck /\ InitMon /\ InitRecDefault
    /\ ParkedPool /\ ParkedTx /\ ParkedMig /\ ParkedCons /\ ParkedComp
    /\ ParkedDm /\ ParkedVal /\ ParkedRb /\ ParkedLife /\ ParkedMonLife /\ ParkedMonRate /\ ParkedOutcome /\ ParkedTxCalls /\ ParkedAttempt /\ ParkedHistory /\ ParkedMgr

SpecMonCheck == InitCheckSpec /\ [][NextCheck]_vars

\* the event loop runs every continuation that is ready
SpecDm == InitDmSpec /\ [][NextDm]_vars /\ WF_vars(NextDm)

SpecRec == InitRecSpec /\ [][NextRec]_vars

SpecTx == InitTxSpec /\ [][NextTx]_vars

----------------------------------------------------------------------------
(* Properties of the TransactionManager *)

\* the marks that one complete run of operation o by attempt a writes
WritesOfStep(a, o) ==
    {<<a, o, k>> : k \in {j \in 1..Len(txOps[o].body) : txOps[o].body[j] = "write"}}

WritesOf(a) == UNION {WritesOfStep(a, o) : o \in 1..Len(txOps)}

Throws(o) == \E k \in 1..Len(txOps[o].body) : txOps[o].body[k] = "throw"

WorkThrows == \E o \in 1..Len(txOps) : Throws(o)

\* C4: executeTransaction / executeBatch with retryAttempts >= 1 and the
\* default automatic rollback: once the call has returned, if the work throws
\* the database is as before the call, and if it does not throw all the
\* writes of one invocation of the work are committed together (or, when the
\* call failed on its timeout, none of them).
C4_Atomic ==
    (txPc = "done" /\ txKind \in {"tx", "batch"} /\ opts.retryAttempts >= 1
        /\ opts.enableAutoRollback)
    => IF WorkThrows
       THEN Committed(db) = InitialData
       ELSE \/ \E a \in 1..attempt : Committed(db) = InitialData \cup WritesOf(a)
            \/ ~txResult.success /\ Committed(db) = InitialData

\* C5: with automatic rollback, no write made by a work whose attempt timed
\* out is ever committed.
C5_TimedOutWorkNeverCommitted ==
    opts.enableAutoRollback => \A t \in Committed(db) : t[1] \notin timedOut

\* C8: executeNestedTransaction whose step 1 succeeds, whose step 2 throws
\* under onError 'continue', whose later steps do not abort the transaction,
\* and none of whose attempts times out: the call reports success, and
\* exactly the writes of the steps that did not throw are committed (step 1
\* kept, step 2 discarded, the later steps run).
C8_Scenario ==
    /\ txKind = "nested"
    /\ opts.retryAttempts >= 1
    /\ ~Throws(1)
    /\ Throws(2) /\ txOps[2].onError = "continue"
    /\ \A o \in 3..Len(txOps) : Throws(o) => txOps[o].onError = "continue"

----------------------------------------------------------------------------
(* Properties of the ConnectionPool *)

\* No getConnection call is suspended between two of its steps.
Quiescent == InFlight = {}

\* C1: after any sequence of getConnection and releaseConnection calls,
\* getStats() satisfies available + inUse = total and total <= max.
C1_StatsInvariant ==
    Quiescent => /\ getStats.available + getStats.inUse = getStats.total
                 /\ getStats.total <= getStats.max

\* C2: a getConnection issued when max calls hold a granted handle and
\* nothing has been released is not granted a handle (it can only time out).
C2_NoGrantBeyondMax ==
    \A c \in CallIds :
        (calls[c].sawFull /\ ~released) => calls[c].pc \notin {"granted", "analyzing"}

C9_InUseRestored ==
    \A c \in CallIds :
        (calls[c].kind = "ewa" /\ calls[c].pc \in {"returned", "threw"})
            => calls[c].delta = 0

----------------------------------------------------------------------------
(***************************************************************************)
(* MigrationRunner: properties                                             *)
(***************************************************************************)
DeclaredVersions == {migrations[i] : i \in 1..Len(migrations)}

\* the versions pending when the last call started
PendingBefore == {v \in DeclaredVersions : \A r \in RecordsOf(migLast.d) : v > r}

\* the pending versions whose up() threw in the last call
ThrowingPending == PendingBefore \cap migLast.F

MinOf(S) == CHOOSE x \in S : \A y \in S : x <= y

FirstThrowing == MinOf(ThrowingPending)

BelowFirstThrowing == {v \in PendingBefore : v < FirstThrowing}

MarksOf(S) == UNION {{<<"up", v, 1>>, <<"up", v, 2>>, <<"rec", v, 0>>} : v \in S}

\* C6: when the up() of a pending version k throws, every pending version
\* below k is applied and recorded, the changes of k are rolled back, no
\* version above k is attempted, and the result has success = false,
\* appliedMigrations = the number of versions below k, a non-empty errors
\* list and currentVersion = the highest version applied.
C6_FailureStopsRun ==
    (migCalls > 0 /\ ThrowingPending # {})
    => /\ ~migResult.success
       /\ migResult.appliedMigrations = Cardinality(BelowFirstThrowing)
       /\ migResult.errors >= 1
       /\ migResult.currentVersion =
              IF BelowFirstThrowing = {}
              THEN (IF RecordsOf(migLast.d) = {} THEN 0 ELSE MaxOf(RecordsOf(migLast.d)))
              ELSE MaxOf(BelowFirstThrowing)
       /\ mdb.data = migLast.d.data \cup MarksOf(BelowFirstThrowing)
       /\ ~mdb.inTx
       /\ \A i \in 1..Len(upRuns) : upRuns[i] <= FirstThrowing

C6_Witness ==
    /\ migCalls > 0
    /\ ThrowingPending # {}
    /\ BelowFirstThrowing # {}
    /\ \E v \in PendingBefore : v > FirstThrowing
    /\ upRuns[Len(upRuns)] = FirstThrowing

\* C7: a call never runs again a version that is already recorded; a call
\* after a fully successful one applies nothing and leaves currentVersion
\* unchanged; a call after a failure at version k starts at k.
C7_Idempotent ==
    /\ \A i \in 1..Len(upRuns) : upRuns[i] \notin RecordsOf(migLast.d)
    /\ (migPrev.called /\ migPrev.res.success)
       => /\ migResult.appliedMigrations = 0
          /\ upRuns = << >>
          /\ migResult.currentVersion = migPrev.res.currentVersion
          /\ mdb = migLast.d
    /\ (migPrev.called /\ migPrev.failedAt # 0)
       => /\ upRuns # << >>
          /\ upRuns[1] = migPrev.failedAt
          /\ \A v \in DeclaredVersions : v < migPrev.failedAt => v \notin PendingBefore

C7_Witness ==
    /\ migPrev.called
    /\ migPrev.failedAt # 0
    /\ RecordsOf(migLast.d) # {}
    /\ migResult.success
    /\ migResult.appliedMigrations >= 2

----------------------------------------------------------------------------
(***************************************************************************)
(* ErrorRecoveryManager: properties                                        *)
(***************************************************************************)
\* C10: with maxRetries = M >= 1 and a connect function that fails on its
\* first k calls, attemptReconnection returns success after exactly k + 1
\* calls when k < M, and returns failure after exactly M calls when k >= M.
C10_ReconnectionAttempts ==
    (recPc = "done" /\ options.maxRetries >= 1)
    => IF failFirst < options.maxRetries
       THEN recResult.success /\ connectCalls = failFirst + 1
       ELSE ~recResult.success /\ connectCalls = options.maxRetries

C10_Witness ==
    /\ recPc = "done"
    /\ options.maxRetries >= 2
    /\ failFirst >= 1
    /\ failFirst < options.maxRetries
    /\ recResult.success
    /\ connectCalls = failFirst + 1

----------------------------------------------------------------------------
(***************************************************************************)
(* verifyAndCorrectInconsistencies: properties                             *)
(***************************************************************************)
GroupBefore(d) == {r \in consBefore.users : r.dni = d}

DuplicatedBefore == {d \in DniValues : Cardinality(GroupBefore(d)) > 1}

\* exactly one row with dni d is left, a row of the group with the earliest created_at
OldestKept(d) ==
    /\ Cardinality({r \in users : r.dni = d}) = 1
    /\ \A r \in users : r.dni = d =>
          /\ \E q \in GroupBefore(d) : q.id = r.id
          /\ \A q \in GroupBefore(d) : r.created_at <= q.created_at

\* a second run finds nothing and changes nothing
SecondRunClean ==
    consCalls = 2 => (consResult.inconsistenciesFound = 0 /\ users = consBefore.users)

ValidRow(r) ==
    /\ r.edad > 0 /\ r.edad <= MaxEdad
    /\ r.dni >= MinDni /\ r.dni <= MaxDni

\* C11 as stated: after verifyAndCorrectInconsistencies on a table in which
\* several rows share a dni, exactly one row with that dni remains and it has
\* the earliest created_at of the group; running it again reports
\* inconsistenciesFound = 0 and changes no row.
C11_KeepsOldest ==
    /\ consCalls = 1 => \A d \in DuplicatedBefore : OldestKept(d)
    /\ SecondRunClean

\* C11 amended: the same, for the groups whose rows all are valid (edad in
\* 1..120, dni in 1000000..99999999) and all have a created_at; the second
\* run is clean for every table.
C11_KeepsOldestOfValidRows ==
    /\ consCalls = 1 =>
          \A d \in DuplicatedBefore :
              (\A r \in GroupBefore(d) : ValidRow(r) /\ r.created_at # 0) => OldestKept(d)
    /\ SecondRunClean

C11_Witness ==
    /\ consCalls = 1
    /\ \E d \in DuplicatedBefore :
          /\ Cardinality(GroupBefore(d)) = 3
          /\ \A r \in GroupBefore(d) : ValidRow(r) /\ r.created_at # 0
          /\ \E r, q \in GroupBefore(d) : r.created_at < q.created_at
          /\ OldestKept(d)

----------------------------------------------------------------------------
(***************************************************************************)
(* performComprehensiveRecovery: properties                                *)
(***************************************************************************)
TierOrder == <<"reconnect", "repair", "restore", "recreate", "delete">>

TierFailedBefore(name) == \E i \in 1..Len(tiers) : tiers[i].tier = name /\ ~tiers[i].ok

\* C12: the tiers run in the order reconnect, repair, restore, recreate,
\* delete; the recovery returns at the first tier that succeeds and runs no
\* later tier; the file is overwritten by a backup only after reconnect and
\* repair failed, and deleted only after all four other tiers failed.
C12_TiersInOrder ==
    /\ Len(tiers) <= Len(TierOrder)
    /\ \A i \in 1..Len(tiers) : tiers[i].tier = TierOrder[i]
    /\ \A i \in 1..(Len(tiers) - 1) : ~tiers[i].ok
    /\ compPc = "done" => /\ tiers # << >>
                          /\ compResult.success = tiers[Len(tiers)].ok
    /\ dbFile = "backup" => TierFailedBefore("reconnect") /\ TierFailedBefore("repair")
    /\ dbFile = "deleted" => /\ TierFailedBefore("reconnect") /\ TierFailedBefore("repair")
                             /\ TierFailedBefore("restore") /\ TierFailedBefore("recreate")

C12_Witness ==
    /\ compPc = "done"
    /\ Len(tiers) = 3
    /\ dbFile = "backup"
    /\ connectCalls >= 2
    /\ compResult.success

----------------------------------------------------------------------------
(***************************************************************************)
(* DatabaseHealthMonitor: properties                                       *)
(***************************************************************************)
\* C13: no recovery action of the ErrorRecoveryManager is started by the
\* monitor while a caller-initiated recovery action is in progress.
C13_NoOverlappingRecovery == ~overlapped

RecoveryTypes == {"connection", "corruption", "consistency"}

ActionFor(type) ==
    IF type = "connection" THEN "attemptReconnection"
    ELSE IF type = "corruption" THEN "detectAndRepairCorruption"
    ELSE "verifyAndCorrectInconsistencies"

OutcomeEvents == {"auto-recovery-success", "auto-recovery-failed", "auto-recovery-error"}

\* C14: after an unhealthy check with autoRecovery enabled, every critical
\* issue of type connection, corruption or consistency was dispatched to its
\* recovery action, and for each of them exactly one outcome event was emitted.
C14_DispatchAndOneEvent ==
    (lastCheck.ran /\ ~lastCheck.healthy /\ monOptions.autoRecovery
        /\ monOptions.hasRecoveryManager)
    => \A k \in 1..Len(lastCheck.critical) :
          lastCheck.critical[k].type \in RecoveryTypes
          => /\ lastCheck.recoveries[k].action = ActionFor(lastCheck.critical[k].type)
             /\ Cardinality({i \in 1..Len(lastCheck.events) :
                                /\ lastCheck.events[i].issue = k
                                /\ lastCheck.events[i].name \in OutcomeEvents}) = 1

----------------------------------------------------------------------------
(***************************************************************************)
(* DatabaseManager.initialize: properties                                  *)
(***************************************************************************)
\* C15: when a declared migration fails every time it is run, initialize()
\* eventually terminates by rejecting.
C15_MigrationFailureRejects == dmMigFails => <>(dmPc = "rejected")

----------------------------------------------------------------------------
(***************************************************************************)
(* MigrationRunner.validateMigrations: properties                          *)
(***************************************************************************)
NoRepeatedVersion ==
    \A i, j \in 1..Len(valMigrations) :
        i # j => valMigrations[i].version # valMigrations[j].version

ValDeclaredVersions == {valMigrations[i].version : i \in 1..Len(valMigrations)}

ConsecutiveVersions ==
    \A v \in ValDeclaredVersions :
        (\E w \in ValDeclaredVersions : w < v) => (v - 1) \in ValDeclaredVersions

NonBlank(name) == name.defined /\ \E k \in 1..Len(name.chars) : name.chars[k] # " "

EveryMigrationComplete ==
    \A i \in 1..Len(valMigrations) :
        /\ valMigrations[i].version > 0
        /\ NonBlank(valMigrations[i].name)
        /\ valMigrations[i].up
        /\ valMigrations[i].down

\* C16: validateMigrations returns valid = true exactly when no version is
\* repeated, the distinct versions are consecutive and every migration has a
\* positive version, a non-blank name, an up and a down; otherwise it returns
\* valid = false with at least one error message.
C16_ValidExactlyWhenWellFormed ==
    valResult.called =>
        /\ valResult.valid <=>
               (NoRepeatedVersion /\ ConsecutiveVersions /\ EveryMigrationComplete)
        /\ ~valResult.valid => Len(valResult.errors) >= 1

C16_Witness ==
    /\ valResult.called
    /\ valResult.valid
    /\ Len(valMigrations) = MaxDeclared
    /\ valMigrations[1].version > valMigrations[2].version

----------------------------------------------------------------------------
(***************************************************************************)
(* MigrationRunner.runPendingMigrations and rollbackMigration: properties  *)
(***************************************************************************)
DeclaredSet == {migrations[i] : i \in 1..Len(migrations)}

\* the declared migrations pass validateMigrations
PassesValidation ==
    validateMigrations([i \in 1..Len(migrations) |-> WellFormed(migrations[i])]).valid

\* a version is recorded only while every lower declared version is recorded
NoGapInRecords ==
    \A v \in RecordsOf(mdb) : \A w \in DeclaredSet : w < v => w \in RecordsOf(mdb)

\* this step is a rollbackMigration call for version v
RollbackStepOf(v) == rbLast'.n = rbLast.n + 1 /\ rbLast'.version = v

RecordsOnlyRemovedByRollback ==
    \A v \in Versions :
        (v \in RecordsOf(mdb) /\ v \notin RecordsOf(mdb')) => RollbackStepOf(v)

\* C17: on a declared set that passes validateMigrations, after any sequence
\* of runPendingMigrations and rollbackMigration calls the recorded versions
\* have no gap relative to the declared set, and a record disappears only
\* through rollbackMigration of that version.
C17_NoGapAndOnlyRollbackRemoves ==
    /\ [](PassesValidation => NoGapInRecords)
    /\ [][PassesValidation => RecordsOnlyRemovedByRollback]_vars

\* C20: rollbackMigration is one transaction: when down() and the deletion
\* succeed, the changes of down() and the deletion are both committed; when
\* either throws, the committed data is what it was before the call and the
\* call rejects.
C20_RollbackIsAtomic ==
    [][\A v \in Versions :
          RollbackStepOf(v) =>
              /\ ~mdb'.inTx
              /\ IF rbLast'.downThrows \/ rbLast'.deleteThrows
                 THEN /\ rbLast'.threw
                      /\ mdb'.data = mdb.data
                 ELSE /\ ~rbLast'.threw
                      /\ mdb'.data = (mdb.data \cup DownChanges(v)) \ {<<"rec", v, 0>>}]_vars

C20_Witness ==
    /\ rbLast.n > 0
    /\ rbLast.deleteThrows /\ ~rbLast.downThrows
    /\ rbLast.threw
    /\ rbLast.version \in RecordsOf(mdb)
    /\ DownChanges(rbLast.version) \cap mdb.data = {}

----------------------------------------------------------------------------
(***************************************************************************)
(* ConnectionPool.releaseConnection and closeAll: properties               *)
(***************************************************************************)
LifeStep(op) == poolLast'.n = poolLast.n + 1 /\ poolLast'.op = op

\* C18: releaseConnection with a database object that does not belong to
\* the pool does not throw and leaves total, available, inUse and every
\* handle's busy flag as they were.
C18_UnknownReleaseChangesNothing ==
    [][LifeStep("releaseConnection") =>
          /\ ~poolLast'.threw
          /\ getStats' = getStats
          /\ connections' = connections
          /\ available' = available]_vars

C18_Witness ==
    /\ poolLast.op = "releaseConnection"
    /\ getStats.inUse > 0
    /\ getStats.available > 0

\* C19: closeAll calls close() on every connection of the pool, borrowed
\* ones included and whether or not a close() throws, does not throw, and
\* leaves total = available = inUse = 0 and the pool uninitialized; so does
\* a second closeAll, and a closeAll of a pool that was never initialized.
C19_CloseAllResets ==
    [][LifeStep("closeAll") =>
          /\ ~poolLast'.threw
          /\ poolLast'.closeCalls = DOMAIN connections
          /\ getStats'.total = 0 /\ getStats'.available = 0 /\ getStats'.inUse = 0
          /\ ~isInitialized']_vars

C19_Witness ==
    /\ poolLast.op = "closeAll"
    /\ poolLast.n = 2
    /\ Cardinality(poolLast.closeCalls) >= 2
    /\ poolLast.closeThrew # {}
    /\ poolLast.closeThrew \subseteq poolLast.borrowed
    /\ getStats.total = 0

----------------------------------------------------------------------------
(***************************************************************************)
(* ConnectionPool.initialize and lending: properties                       *)
(***************************************************************************)
\* in this step the initialize() run by call c sets isInitialized and returns
InitializeReturns(c) ==
    calls[c].pc \in {"idle", "initLoop"} /\ calls'[c].pc = "afterInit"

\* C21: when initialize() returns, the pool has exactly min connections, all
\* of them available; once initialized, total >= min; a getConnection on an
\* initialized pool does not run initialize() again.
C21_InitializeOpensMin ==
    /\ [][\A c \in CallIds :
            InitializeReturns(c) =>
                /\ getStats'.total = config.min
                /\ getStats'.available = config.min
                /\ getStats'.inUse = 0]_vars
    /\ [](isInitialized => getStats.total >= config.min)
    /\ [][\A c \in CallIds :
            (isInitialized /\ calls[c].pc = "idle") => calls'[c].pc # "initLoop"]_vars

\* C24: no connection is held by two callers at the same time, and the
\* available list holds only ids of connections that are not in use, each
\* at most once.
C24_ExclusiveLending ==
    /\ \A c1, c2 \in Holding : c1 # c2 => calls[c1].conn # calls[c2].conn
    /\ \A k \in 1..Len(available) :
           /\ ~connections[available[k]]
           /\ \A j \in 1..Len(available) : j # k => available[j] # available[k]

\* no call has got past the initialization of the pool
OnlyInitializing == \A c \in CallIds : calls[c].pc \in {"idle", "initLoop", "afterInit"}

\* C30: getConnection calls issued together on a pool that is not
\* initialized open min connections between them before any on-demand
\* growth, and total never exceeds max.
C30_InitializedOnce ==
    /\ OnlyInitializing => getStats.total <= config.min
    /\ (OnlyInitializing /\ isInitialized) => getStats.total = config.min
    /\ getStats.total <= config.max

----------------------------------------------------------------------------
(***************************************************************************)
(* DatabaseHealthMonitor.startMonitoring and stopMonitoring: properties    *)
(***************************************************************************)
MonLifeStep(op) == monLife'.n = monLife.n + 1 /\ monLife'.op = op

MonitorUntouched ==
    /\ isMonitoring' = isMonitoring
    /\ timer' = timer
    /\ monLife'.timers = monLife.timers
    /\ monLife'.emitted = monLife.emitted

EventsAlternate ==
    \A k \in 1..Len(monLife.emitted) :
        monLife.emitted[k] = IF k % 2 = 1 THEN "monitoring-started" ELSE "monitoring-stopped"

\* C22: the monitor is idle or monitoring; startMonitoring while monitoring
\* and stopMonitoring while idle change nothing and emit nothing; the
\* monitoring-started and monitoring-stopped events alternate, starting with
\* monitoring-started; at most one timer exists and none while idle.
C22_TwoStateLifecycle ==
    /\ [](/\ isMonitoring \in BOOLEAN
          /\ isMonitoring <=> (Len(monLife.emitted) % 2 = 1)
          /\ EventsAlternate
          /\ monLife.timers <= 1
          /\ ~isMonitoring => monLife.timers = 0)
    /\ [][/\ (MonLifeStep("startMonitoring") /\ isMonitoring) => MonitorUntouched
          /\ (MonLifeStep("stopMonitoring") /\ ~isMonitoring) => MonitorUntouched]_vars

C22_Witness ==
    /\ monLife.n >= 5
    /\ monLife.op = "startMonitoring"
    /\ Len(monLife.emitted) = 3
    /\ monLife.timers = 1
    /\ isMonitoring

----------------------------------------------------------------------------
(***************************************************************************)
(* DatabaseHealthMonitor error rate: properties                            *)
(***************************************************************************)
\* C29: a health check that follows 10 error-free health checks in a row
\* computes the error rate 0 and raises no error-rate issue, whatever
\* failed before them.
C29_ErrorRateIsRolling ==
    [][(monRate'.n = monRate.n + 1 /\ monRate.clean >= RecentWindow) =>
           /\ monRate'.rate.num = 0
           /\ monRate'.issue = "none"]_vars

----------------------------------------------------------------------------
(***************************************************************************)
(* ErrorRecoveryManager: how the recovery calls end: properties            *)
(***************************************************************************)
CallEnded == recOutcome # NoOutcome

ConnectSucceeds == recInput.failFirst < recInput.maxRetries

RetrySucceeds ==
    /\ ~recInput.rollbackThrows
    /\ ~(~recInput.healthy /\ recInput.corruption = "unrepaired")
    /\ ~recInput.beginThrows /\ ~recInput.workThrows /\ ~recInput.commitThrows

\* C23: attemptReconnection, handleTransactionFailure and
\* performComprehensiveRecovery never throw, whatever the operations inside
\* them do: each returns a RecoveryResult. attemptReconnection succeeds
\* exactly when a connect call made it; handleTransactionFailure succeeds
\* exactly when its rollback, the retried work and the commit went through;
\* performComprehensiveRecovery names the tier that ended it.
C23_RecoveryNeverThrows ==
    CallEnded =>
        /\ ~recOutcome.threw
        /\ recOutcome.success \in BOOLEAN
        /\ recOutcome.action \in {"reconnect", "repair", "restore", "recreate"}
        /\ recInput.fn = "attemptReconnection" =>
               /\ recOutcome.action = "reconnect"
               /\ recOutcome.success <=> ConnectSucceeds
        /\ recInput.fn = "handleTransactionFailure" =>
               /\ recOutcome.success <=> RetrySucceeds
               /\ recOutcome.action = IF recOutcome.success THEN "reconnect" ELSE "repair"
        /\ recInput.fn = "performComprehensiveRecovery" =>
               /\ recOutcome.action = "reconnect" <=> ConnectSucceeds
               /\ recOutcome.action = "repair" => env.file = "repairable"
               /\ recOutcome.action = "restore" => env.backup = "ok"

C23_Witness ==
    /\ CallEnded
    /\ recInput.fn = "handleTransactionFailure"
    /\ recInput.commitThrows /\ recInput.rollbackAgainThrows
    /\ ~recInput.rollbackThrows
    /\ ~recOutcome.success

----------------------------------------------------------------------------
(***************************************************************************)
(* TransactionManager.executeTransaction: results, retries                 *)
(***************************************************************************)
\* C25: executeTransaction returns success = true only if an invocation of
\* the work ran to completion without timing out and its writes are
\* committed; a result of the recovery path, which is taken only after the
\* work's transaction failed, never reports success.
C25_SuccessMeansCommitted ==
    (txPc = "done" /\ txKind = "tx" /\ txResult.success) =>
        /\ ~txResult.recoveryAttempted
        /\ \E a \in 1..attempt :
               /\ a \notin timedOut
               /\ ~WorkThrows
               /\ WritesOf(a) \subseteq Committed(db)

\* the marks of call c in a set of rows
MarksOfCall(c, rows) == {t \in rows : t[1] = c}

\* C26: a step of one executeTransaction call, its failure and its rollback
\* included, neither removes nor commits a write of another call whose work
\* is in progress.
C26_CallsDoNotDisturb ==
    [][\A c, c2 \in TxCallIds :
          (c # c2 /\ txCalls'[c] # txCalls[c]) =>
              /\ MarksOfCall(c2, db'.data) = MarksOfCall(c2, db.data)
              /\ MarksOfCall(c2, Committed(db')) = MarksOfCall(c2, Committed(db))]_vars

\* the places of operation s in the steps of the call
PlacesOf(s) == {i \in 1..Len(recOutcome.steps) : recOutcome.steps[i] = s}

Invoked == {a \in DOMAIN runs : runs[a].st # "none"}

C31_RecoveryOnceAfterLastAttempt ==
    /\ [](/\ Len(recoveryCalls) <= 1
          /\ recoveryCalls # << >> =>
                 /\ recoveryCalls = <<opts.retryAttempts>>
                 /\ attempt = opts.retryAttempts
                 /\ opts.enableRecovery
                 /\ recoveryManager
                 /\ txPc = "done"
          /\ txPc = "done" => (txResult.recoveryAttempted <=> recoveryCalls # << >>))
    /\ [][recoveryCalls' # recoveryCalls =>
              /\ recoveryCalls = << >>
              /\ attempt' = opts.retryAttempts
              /\ attempt' \in timedOut' \/ runs'[attempt'].st = "over"
              /\ txPc' = "done"
              /\ txResult'.recoveryAttempted]_vars

C31_Witness ==
    /\ txPc = "done"
    /\ opts.retryAttempts = MaxBackoffRetry
    /\ recoveryCalls = <<MaxBackoffRetry>>
    /\ txResult.recoveryAttempted

\* the work of the attempt threw
WorkThrew == attemptOutcome.ended /\ ~attemptInput.beginThrows /\ attemptInput.workThrows

RepairInvoked == \E i \in DOMAIN attemptOutcome.steps :
                     attemptOutcome.steps[i] = "detectAndRepairCorruption"

\* C32 (as stated): whenever the work of an attempt throws, a ROLLBACK of the
\* open transaction is attempted; if the ROLLBACK itself fails,
\* detectAndRepairCorruption is invoked on the connection and the error
\* reported for the attempt is the work's error, not the rollback error.
C32_AsStated ==
    WorkThrew =>
        /\ Len(attemptOutcome.steps) >= 3
        /\ SubSeq(attemptOutcome.steps, 1, 3) = <<"BEGIN", "work", "ROLLBACK">>
        /\ attemptInput.rollbackThrows => RepairInvoked
        /\ attemptOutcome.error = "work"

\* C32 (amended): whenever the work of an attempt throws, a ROLLBACK of the
\* open transaction is attempted directly after it; if the ROLLBACK itself
\* fails, detectAndRepairCorruption is invoked next exactly when the manager
\* has a recovery manager; the error reported for the attempt is the work's
\* error in every case.
C32_RollbackOnWorkError ==
    WorkThrew =>
        /\ Len(attemptOutcome.steps) >= 3
        /\ SubSeq(attemptOutcome.steps, 1, 3) = <<"BEGIN", "work", "ROLLBACK">>
        /\ attemptInput.rollbackThrows /\ attemptInput.recoveryManager =>
               /\ Len(attemptOutcome.steps) >= 4
               /\ attemptOutcome.steps[4] = "detectAndRepairCorruption"
        /\ RepairInvoked <=> (attemptInput.rollbackThrows /\ attemptInput.recoveryManager)
        /\ attemptOutcome.error = "work"

C32_Witness ==
    /\ WorkThrew
    /\ attemptInput.rollbackThrows
    /\ attemptInput.recoveryManager
    /\ attemptOutcome.steps[4] = "detectAndRepairCorruption"
    /\ attemptOutcome.error = "work"

\* the first step that ends an invocation of the work: it throws under
\* onError 'rollback' (0 if the work has no such step)
AbortingStep ==
    LET S == {o \in 1..Len(txOps) : Throws(o) /\ txOps[o].onError = "rollback"}
    IN  IF S = {} THEN 0 ELSE CHOOSE o \in S : \A p \in S : o <= p

\* C33: executeNestedTransaction, when a step whose onError policy is
\* 'rollback' throws: no step after it is run in that attempt, and once the
\* call has returned with failure none of the writes of any step persist.
C33_RollbackStepDiscardsAll ==
    (txKind = "nested" /\ opts.retryAttempts >= 1 /\ AbortingStep # 0)
    => /\ \A t \in db.data \ InitialData : t[2] <= AbortingStep
       /\ (txPc = "done" /\ ~txResult.success) => Committed(db) = InitialData

\* C34: the monitor's sample history never holds more than 100 samples; when
\* a sample is added to a full history the oldest one is evicted, the newest
\* is kept, and the remaining samples stay in chronological order.
C34_HistoryBounded ==
    /\ [](/\ Len(history.metrics) <= 100
          /\ \A i \in 1..(Len(history.metrics) - 1) :
                 history.metrics[i] < history.metrics[i + 1])
    /\ [][history' # history =>
              LET old == history.metrics
                  new == history'.metrics
              IN  /\ new[Len(new)] = history'.clock
                  /\ IF Len(old) < 100
                     THEN /\ Len(new) = Len(old) + 1
                          /\ \A i \in 1..Len(old) : new[i] = old[i]
                     ELSE /\ Len(new) = 100
                          /\ \A i \in 1..99 : new[i] = old[i + 1]]_vars

C34_Witness ==
    /\ Len(history.metrics) = 100
    /\ history.metrics[1] = 4
    /\ history.metrics[100] = 103

\* the last call on the manager
LastCall == mgrTrail[Len(mgrTrail)]

\* an initialize returned, then a disconnect, and initialize was the call
\* before the last
Reentered ==
    /\ Len(mgrTrail) >= 4
    /\ mgrTrail[Len(mgrTrail) - 1].op = "initialize"
    /\ \E i, j \in 1..(Len(mgrTrail) - 2) :
           i < j /\ mgrTrail[i].op = "initialize" /\ mgrTrail[j].op = "disconnect"

\* C35: after initialize() has succeeded and disconnect() has completed, a
\* further initialize() re-opens the connection: getDatabase() afterwards
\* returns a usable connection instead of throwing.
C35_ReinitializeReopens ==
    (Reentered /\ LastCall.op = "getDatabase")
    => (~LastCall.threw /\ LastCall.conn # 0 /\ ~LastCall.closed)

\* C36: after restore(path) completes, the TransactionManager and the health
\* monitor handed out by the manager operate on the newly opened connection,
\* never on the connection that restore closed.
C36_RestoreRebindsHelpers ==
    \A i \in 1..(Len(mgrTrail) - 1) :
        (mgrTrail[i].op = "restore" /\ ~mgrTrail[i].threw
            /\ LastCall.op \in {"getTransactionManager", "getHealthMonitor"} /\ ~LastCall.threw)
        => (~LastCall.closed /\ LastCall.conn = mgr.db)

\* C37: after disconnect() completes, the health monitor the manager started
\* is idle: no periodic health check runs against the closed connection and
\* no health or auto-recovery event is emitted.
C37_MonitorIdleAfterDisconnect ==
    \A i, j \in 1..Len(mgrTrail) :
        (i < j /\ mgrTrail[i].op = "disconnect" /\ mgrTrail[j].op = "performHealthCheck")
        => (~mgrTrail[j].closed /\ mgrTrail[j].events = << >>)

\* C38: in every result of verifyAndCorrectInconsistencies,
\* corrected <= inconsistenciesFound, and inconsistenciesFound = 0 implies
\* corrected = 0, for every content of the tables.
C38_CorrectedAtMostFound ==
    /\ consResult.corrected <= consResult.inconsistenciesFound
    /\ consResult.inconsistenciesFound = 0 => consResult.corrected = 0

\* C39: each attemptReconnection call invokes its connect function at most
\* maxRetries times, also when a monitor-triggered reconnect on the same
\* ErrorRecoveryManager overlaps it.
C39_ConnectCallsBounded == connectCalls <= options.maxRetries

HealthEvents == {"health-ok", "health-degraded", "health-check-failed"}

IsHealthEvent(e) == e \in HealthEvents

\* C40: every performHealthCheck returns healthy = true exactly when its
\* issues list contains no critical issue, and emits exactly one of the
\* events health-ok (when healthy), health-degraded (when unhealthy) or
\* health-check-failed (when the check itself threw).
C40_OneHealthEvent ==
    checkOutcome.ran =>
        /\ checkOutcome.healthy <=>
               (\A i \in DOMAIN checkOutcome.issues :
                    checkOutcome.issues[i].severity # "critical")
        /\ SelectSeq(checkOutcome.events, IsHealthEvent)
               = <<IF checkOutcome.threw THEN "health-check-failed"
                   ELSE IF checkOutcome.healthy THEN "health-ok"
                   ELSE "health-degraded">>

====
